---- MODULE Spec2Model ----
(***************************************************************************)
(* SPACESCOPE ingestion pipeline.                                          *)
(*                                                                         *)
(*   FetchSpec : NASAAPIBase.fetch (services/nasa_apis.py): read-through   *)
(*               cache, bounded retry loop, rate-limit / timeout handling. *)
(*   Spec      : the Celery ingestion tasks (tasks/nasa_ingestion.py)      *)
(*               running concurrently against the shared store, whose      *)
(*               natural-key columns are declared unique (db_models.py).   *)
(***************************************************************************)
EXTENDS Integers, Sequences, FiniteSets, TLC

(***************************************************************************)
(* Program constants                                                       *)
(***************************************************************************)
max_retries == 3

cache_ttl == 86400

task_max_retries == 3

None == "None"

(***************************************************************************)
(* Bounds of the model                                                     *)
(***************************************************************************)
MaxCalls == 2

MaxTicks == 2

NJobs == 2

MaxItems == 2

\* half hours celery beat is followed for: 6 hours
MaxBeats == 12

\* items per answer where tasks run next to the orchestrator and an outage
OutageItems == 1

Classes == {"DONKIService", "EPICService"}

\* a URL as text: the pieces a ":" separates (scheme, rest)
BaseUrl == <<"https", ":", "//u1">>

Urls == {BaseUrl}

Payloads == {"p1", "p2"}

\* Parameter names are modelled by their rank in lexicographic order;
\* 'api_key' sorts before the other names used here.
ApiKeyName == 0

\* the parameter names, in ascending order: rank r is ParamNames[r + 1]
ParamNames == <<"api_key", "endDate", "startDate">>

ApiKeyValue == "NASA_API_KEY"

ParamChoices ==
    { <<>>,
      << <<1, "a">>, <<2, "b">> >>,
      << <<2, "b">>, <<1, "a">> >> }

\* The clock advances in steps of half a TTL: an entry written at t is live at
\* t + TickStep and expired at t + 2 * TickStep = t + cache_ttl.
TickStep == cache_ttl \div 2

VARIABLES
    cache,      \* redis: cache key -> [val, exp, by]
    now,        \* wall clock, seconds
    ticks,      \* number of clock advances so far
    calls,      \* number of fetch calls started so far
    fpc,        \* position of the fetch call: "idle" | "attempt" | "done"
    fcall,      \* the running call: [cls, url, sorted, redis, key]
    attempt,    \* loop variable of `for attempt in range(self.max_retries)`
    netCalls,   \* session.get calls made by the running call
    sleeps,     \* asyncio.sleep(self.retry_delay) calls made by the running call
                \* (counted; the clock itself moves by Tick only)
    responses,  \* what each network attempt of the running call met
    result,     \* return value of the running call
    hitFrom,    \* class that wrote the entry the running call was served from
    lastOk      \* the latest network fetch that returned 200:
                \* [key, t, payload, call]

VARIABLES
    store,      \* the rows of the shared database: [table, key, by]
    kind,       \* per job: the task it runs
    jpc,        \* per job: "unused" | "queued" | "items" | "commit" | "done"
    data,       \* per job: what the fetch of its running execution returned
    idx,        \* per job: position of the item loop
    pending,    \* per job: keys session.add()ed and not yet committed
    skipped,    \* per job: keys its latest execution found stored already
    retries,    \* per job: self.request.retries
    status,     \* per job: "status" of the returned dict, or "FAILURE"
    raised,     \* per job: the exception that ended its latest execution
    inserted,   \* per job: rows its latest commit stored
    prior       \* per job: the jobs that had succeeded when it was enqueued

jobVars == <<store, kind, jpc, data, idx, pending, skipped, retries, status,
             raised, inserted, prior>>

fetchVars == <<cache, now, ticks, calls, fpc, fcall, attempt, netCalls, sleeps,
               responses, result, hitFrom, lastOk>>

VARIABLES
    before,     \* per job: the store as its running execution found it
    netTotal    \* per job: session.get calls made by all its executions

taskVars == <<before, netTotal>>

VARIABLES
    orch,       \* ingest_all_nasa_data: "idle" | "queued" | "returned"
    bjobs,      \* the tasks it enqueued: task id -> [task, state]
    handle,     \* the dict it returned
    nextId      \* source of fresh task ids

batchVars == <<orch, bjobs, handle, nextId>>

VARIABLES
    beatNow,    \* the clock of celery beat, in half hours since midnight UTC
    beatSent,   \* per periodic task: the messages beat has sent for it
    beatRan     \* per periodic task: the executions a worker has finished

beatVars == <<beatNow, beatSent, beatRan>>

VARIABLES
    keyIn,      \* the arguments of two fetch calls: [cls, url, params] each
    keyOut      \* the cache key each of the two calls built

keyVars == <<keyIn, keyOut>>

vars == <<fetchVars, jobVars, taskVars, batchVars, beatVars, keyVars>>

Range(seq) == {seq[i] : i \in 1..Len(seq)}

NoRepeat(seq) == \A m, n \in 1..Len(seq) : seq[m] = seq[n] => m = n

(***************************************************************************)
(* json.dumps / json.loads and the cache key                               *)
(***************************************************************************)
\* params[name] = value on a dict that keeps insertion order
DictSet(params, name, value) ==
    IF \E i \in 1..Len(params) : params[i][1] = name
    THEN [i \in 1..Len(params) |->
            IF params[i][1] = name THEN <<name, value>> ELSE params[i]]
    ELSE Append(params, <<name, value>>)

\* json.dumps(params, sort_keys=True): the items in ascending key order
RECURSIVE SortKeys(_)
SortKeys(params) ==
    IF params = <<>> THEN <<>>
    ELSE LET m == CHOOSE i \in 1..Len(params) :
                    \A j \in 1..Len(params) : params[i][1] <= params[j][1]
             rest == [i \in 1..(Len(params) - 1) |->
                        IF i < m THEN params[i] ELSE params[i + 1]]
         IN  <<params[m]>> \o SortKeys(rest)

JsonDumps(obj) == <<"json", obj>>

JsonLoads(text) == text[2]

\* a string between double quotes
Quote(text) == <<"\"", text, "\"">>

\* the text of the items of a dict: "name": "value", separated by ", "
RECURSIVE DumpsItems(_)
DumpsItems(items) ==
    IF items = <<>> THEN <<>>
    ELSE Quote(ParamNames[items[1][1] + 1]) \o <<": ">> \o Quote(items[1][2])
           \o (IF Len(items) > 1 THEN <<", ">> \o DumpsItems(Tail(items))
               ELSE <<>>)

\* json.dumps(params, sort_keys=True), as text
DumpsSorted(params) == <<"{">> \o DumpsItems(SortKeys(params)) \o <<"}">>

\* a key that leaves out the class name
CacheKeyNoClass(cls, url, params) ==
    <<"", ":">> \o url \o <<":">> \o DumpsSorted(params)

\* a key built without sort_keys
CacheKeyUnsorted(cls, url, params) ==
    <<cls, ":">> \o url \o <<":">> \o <<"{">> \o DumpsItems(params) \o <<"}">>

\* f"{self.__class__.__name__}:{url}:{json.dumps(params, sort_keys=True)}"
\* as text: the class name, ":", the URL, ":", the dumped params
CacheKey(cls, url, params) ==
    <<cls, ":">> \o url \o <<":">> \o DumpsSorted(params)

\* a lookup that serves expired entries
RedisGetNoExpiry(c, key, t) ==
    IF key \in DOMAIN c THEN c[key].val ELSE None

\* redis.get: the value of a live entry, None for a missing or expired one
RedisGet(c, key, t) ==
    IF key \in DOMAIN c /\ c[key].exp > t THEN c[key].val ELSE None

\* redis.setex(key, ttl, value)
RedisSetex(c, key, ttl, value, t, writer) ==
    (key :> [val |-> value, exp |-> t + ttl, by |-> writer]) @@ c

NoCall == [cls |-> None, url |-> <<>>, sorted |-> <<>>, redis |-> FALSE,
           key |-> <<>>]

NoFetch == [key |-> <<>>, t |-> 0, payload |-> None, call |-> 0]

(***************************************************************************)
(* NASAAPIBase.fetch                                                       *)
(***************************************************************************)
\* Entry of fetch up to the cache lookup.  `redis` tells whether the service
\* instance was constructed with a redis client.
FetchCall(cls, url, params, redis) ==
    /\ fpc = "idle"
    /\ LET sent   == DictSet(params, ApiKeyName, ApiKeyValue)
           key    == CacheKey(cls, url, sent)
           cached == IF redis THEN RedisGet(cache, key, now) ELSE None
       IN  /\ fcall' = [cls |-> cls, url |-> url, sorted |-> SortKeys(sent),
                        redis |-> redis, key |-> key]
           /\ IF cached # None
              THEN /\ result' = JsonLoads(cached)
                   /\ hitFrom' = cache[key].by
                   /\ fpc' = "done"
              ELSE /\ result' = None
                   /\ hitFrom' = None
                   /\ fpc' = "attempt"
    /\ calls' = calls + 1
    /\ attempt' = 0
    /\ netCalls' = 0
    /\ sleeps' = 0
    /\ responses' = <<>>
    /\ UNCHANGED <<cache, now, ticks, lastOk>>

\* one pass too many
LoopNextOffByOne ==
    /\ attempt' = attempt + 1
    /\ fpc' = IF attempt + 1 <= max_retries THEN "attempt" ELSE "done"
    /\ result' = None

\* The end of one pass of `for attempt in range(self.max_retries)` that did
\* not return: the next pass, or the `return None` after the loop.
LoopNext ==
    /\ attempt' = attempt + 1
    /\ fpc' = IF attempt + 1 < max_retries THEN "attempt" ELSE "done"
    /\ result' = None

\* response.status == 200
Respond200(payload) ==
    /\ fpc = "attempt"
    /\ netCalls' = netCalls + 1
    /\ responses' = Append(responses, "200")
    /\ cache' = IF fcall.redis
                THEN RedisSetex(cache, fcall.key, cache_ttl, JsonDumps(payload),
                                now, fcall.cls)
                ELSE cache
    /\ result' = payload
    /\ fpc' = "done"
    /\ UNCHANGED <<now, ticks, calls, fcall, attempt, sleeps, hitFrom>>

\* response.status == 200, the fetch noted as the latest that succeeded
Attempt200(payload) ==
    /\ Respond200(payload)
    /\ lastOk' = [key |-> <<fcall.cls, fcall.url, fcall.sorted>>,
                  t |-> now, payload |-> payload, call |-> calls]

\* response.status == 429
Attempt429 ==
    /\ fpc = "attempt"
    /\ netCalls' = netCalls + 1
    /\ responses' = Append(responses, "429")
    /\ sleeps' = sleeps + 1
    /\ LoopNext
    /\ UNCHANGED <<cache, now, ticks, calls, fcall, hitFrom, lastOk>>

\* any other status, handled like a rate limit without the delay
AttemptErrorRetried ==
    /\ fpc = "attempt"
    /\ netCalls' = netCalls + 1
    /\ responses' = Append(responses, "error")
    /\ attempt' = attempt + 1
    /\ fpc' = IF attempt + 1 < max_retries THEN "attempt" ELSE "done"
    /\ result' = None
    /\ UNCHANGED <<cache, now, ticks, calls, fcall, sleeps, hitFrom, lastOk>>

\* any other status
AttemptError ==
    /\ fpc = "attempt"
    /\ netCalls' = netCalls + 1
    /\ responses' = Append(responses, "error")
    /\ result' = None
    /\ fpc' = "done"
    /\ UNCHANGED <<cache, now, ticks, calls, fcall, attempt, sleeps, hitFrom,
                   lastOk>>

\* a timeout that is retried without counting as an attempt
AttemptTimeoutOwnCounter ==
    /\ fpc = "attempt"
    /\ netCalls' = netCalls + 1
    /\ responses' = Append(responses, "timeout")
    /\ sleeps' = sleeps + 1
    /\ result' = None
    /\ UNCHANGED <<cache, now, ticks, calls, fpc, fcall, attempt, hitFrom,
                   lastOk>>

\* except asyncio.TimeoutError
AttemptTimeout ==
    /\ fpc = "attempt"
    /\ netCalls' = netCalls + 1
    /\ responses' = Append(responses, "timeout")
    /\ sleeps' = IF attempt < max_retries - 1 THEN sleeps + 1 ELSE sleeps
    /\ LoopNext
    /\ UNCHANGED <<cache, now, ticks, calls, fcall, hitFrom, lastOk>>

\* any other exception, handled like a timeout
AttemptExceptionRetried ==
    /\ fpc = "attempt"
    /\ netCalls' = netCalls + 1
    /\ responses' = Append(responses, "exception")
    /\ sleeps' = IF attempt < max_retries - 1 THEN sleeps + 1 ELSE sleeps
    /\ LoopNext
    /\ UNCHANGED <<cache, now, ticks, calls, fcall, hitFrom, lastOk>>

\* except Exception
AttemptException ==
    /\ fpc = "attempt"
    /\ netCalls' = netCalls + 1
    /\ responses' = Append(responses, "exception")
    /\ result' = None
    /\ fpc' = "done"
    /\ UNCHANGED <<cache, now, ticks, calls, fcall, attempt, sleeps, hitFrom,
                   lastOk>>

\* fetch has returned to its caller
FetchReturn ==
    /\ fpc = "done"
    /\ fpc' = "idle"
    /\ fcall' = NoCall
    /\ attempt' = 0
    /\ netCalls' = 0
    /\ sleeps' = 0
    /\ responses' = <<>>
    /\ result' = None
    /\ hitFrom' = None
    /\ UNCHANGED <<cache, now, ticks, calls, lastOk>>

\* Time passes.
Tick ==
    /\ ticks < MaxTicks
    /\ ticks' = ticks + 1
    /\ now' = now + TickStep
    /\ UNCHANGED <<cache, calls, fpc, fcall, attempt, netCalls, sleeps,
                   responses, result, hitFrom, lastOk>>

(***************************************************************************)
(* The store and the ingestion tasks                                       *)
(***************************************************************************)
Jobs == 1..NJobs

Keys == {"k1", "k2"}

Kinds == {"ingest_apod", "ingest_donki_flares", "ingest_tle_data"}

\* the table a task writes and its unique natural-key column
Table(k) ==
    CASE k = "ingest_apod" -> "apod"
      [] k = "ingest_apod_range" -> "apod"
      [] k = "ingest_asteroids_today" -> "asteroids_neows"
      [] k = "ingest_asteroids_by_date" -> "asteroids_neows"
      [] k = "ingest_donki_flares" -> "donki"
      [] k = "ingest_eonet_events" -> "eonet"
      [] k = "ingest_epic_imagery" -> "epic"
      [] k = "ingest_habitable_exoplanets" -> "exoplanets"
      [] k = "ingest_nasa_images" -> "nasa_image_library"
      [] k = "ingest_cneos_data" -> "cneos"
      [] k = "ingest_techport_projects" -> "techport"
      [] k = "ingest_techtransfer_spinoffs" -> "techtransfer"
      [] k = "ingest_tle_data" -> "tle"
      [] k = "ingest_insight_weather" -> "insight_weather"

\* tasks that query for an existing row before session.add
ChecksExisting(k) == k \notin {"ingest_apod", "ingest_tle_data"}

ItemLists == UNION {[1..n -> Keys] : n \in 0..MaxItems}

\* What run_async(service.get_...()) can return: None, a list of items, or
\* (APOD) a single item.
FetchResults(k) ==
    {[shape |-> "none", items |-> <<>>]}
      \cup {[shape |-> "list", items |-> l] : l \in ItemLists}
      \cup (IF k = "ingest_apod"
            THEN {[shape |-> "dict", items |-> <<key>>] : key \in Keys}
            ELSE {})

NoData == [shape |-> "none", items |-> <<>>]

\* Python truth value of the fetched data
Truthy(d) ==
    \/ d.shape = "dict"
    \/ d.shape \in {"list", "object"} /\ d.items # <<>>

Stored(st, table, key) == \E r \in st : r.table = table /\ r.key = key

\* a store without the unique constraint
DuplicateKeysAccepted(st, table, keys) == {}

\* unique=True on the natural-key column: the keys of the flushed INSERTs that
\* are stored already or occur twice among them
DuplicateKeys(st, table, keys) ==
    {keys[i] : i \in {n \in 1..Len(keys) :
        \/ Stored(st, table, keys[n])
        \/ \E m \in 1..Len(keys) : m # n /\ keys[m] = keys[n]}}

NoHandle == [status |-> None, task_count |-> 0, task_ids |-> <<>>]

\* celery_app.conf.beat_schedule: for each entry its task and its crontab, the
\* crontab as the number of half hours between two firings
beat_schedule ==
    ("ingest-nasa-data" :>
        [task |-> "ingest_nasa_data", every |-> 12])
    @@ ("ingest-space-weather" :>
        [task |-> "ingest_space_weather_data", every |-> 1])
    @@ ("predict-solar-activity" :>
        [task |-> "predict_solar_activity", every |-> 48])
    @@ ("generate-event-alerts" :>
        [task |-> "generate_event_alerts", every |-> 4])

PeriodicTasks == {beat_schedule[e].task : e \in DOMAIN beat_schedule}

Rows(j, table, keys, exec) ==
    {[table |-> table, key |-> keys[i], by |-> <<j, exec, i>>] :
        i \in 1..Len(keys)}

\* The state after construction: no fetch call running, an empty cache, an
\* empty store, no task enqueued.
Init ==
    /\ cache = <<>>
    /\ now = 0
    /\ ticks = 0
    /\ calls = 0
    /\ fpc = "idle"
    /\ fcall = NoCall
    /\ attempt = 0
    /\ netCalls = 0
    /\ sleeps = 0
    /\ responses = <<>>
    /\ result = None
    /\ hitFrom = None
    /\ lastOk = NoFetch
    /\ store = {}
    /\ kind = [j \in Jobs |-> None]
    /\ jpc = [j \in Jobs |-> "unused"]
    /\ data = [j \in Jobs |-> NoData]
    /\ idx = [j \in Jobs |-> 0]
    /\ pending = [j \in Jobs |-> <<>>]
    /\ skipped = [j \in Jobs |-> <<>>]
    /\ retries = [j \in Jobs |-> 0]
    /\ status = [j \in Jobs |-> None]
    /\ raised = [j \in Jobs |-> None]
    /\ inserted = [j \in Jobs |-> 0]
    /\ prior = [j \in Jobs |-> {}]
    /\ before = [j \in Jobs |-> {}]
    /\ netTotal = [j \in Jobs |-> 0]
    /\ orch = "idle"
    /\ bjobs = <<>>
    /\ handle = NoHandle
    /\ nextId = 1
    /\ beatNow = 0
    /\ beatSent = [task \in PeriodicTasks |-> 0]
    /\ beatRan = [task \in PeriodicTasks |-> 0]
    /\ keyIn = <<>>
    /\ keyOut = <<>>

\* task.delay(): the task is enqueued.  Slots are taken in order.
Delay(j, k) ==
    /\ jpc[j] = "unused"
    /\ \A i \in Jobs : i < j => jpc[i] # "unused"
    /\ kind' = [kind EXCEPT ![j] = k]
    /\ jpc' = [jpc EXCEPT ![j] = "queued"]
    /\ prior' = [prior EXCEPT ![j] =
                    {i \in Jobs : jpc[i] = "done" /\ status[i] = "success"}]
    /\ UNCHANGED <<store, data, idx, pending, skipped, retries, status, raised,
                   inserted>>

\* a failure reported at the first exception, though the task runs again
RetryReportsEarly(j, exc) ==
    /\ raised' = [raised EXCEPT ![j] = exc]
    /\ status' = [status EXCEPT ![j] = "FAILURE"]
    /\ IF retries[j] < task_max_retries
       THEN /\ retries' = [retries EXCEPT ![j] = retries[j] + 1]
            /\ jpc' = [jpc EXCEPT ![j] = "queued"]
       ELSE /\ retries' = retries
            /\ jpc' = [jpc EXCEPT ![j] = "done"]

\* one retry too many
RetryOffByOne(j, exc) ==
    /\ raised' = [raised EXCEPT ![j] = exc]
    /\ IF retries[j] <= task_max_retries
       THEN /\ retries' = [retries EXCEPT ![j] = retries[j] + 1]
            /\ jpc' = [jpc EXCEPT ![j] = "queued"]
            /\ status' = status
       ELSE /\ retries' = retries
            /\ jpc' = [jpc EXCEPT ![j] = "done"]
            /\ status' = [status EXCEPT ![j] = "FAILURE"]

\* except Exception as exc: raise self.retry(exc=exc, countdown=60)
\* The execution ends; the task is enqueued again unless its retries are used
\* up, in which case the exception is raised and the task has failed.
Retry(j, exc) ==
    /\ raised' = [raised EXCEPT ![j] = exc]
    /\ IF retries[j] < task_max_retries
       THEN /\ retries' = [retries EXCEPT ![j] = retries[j] + 1]
            /\ jpc' = [jpc EXCEPT ![j] = "queued"]
            /\ status' = status
       ELSE /\ retries' = retries
            /\ jpc' = [jpc EXCEPT ![j] = "done"]
            /\ status' = [status EXCEPT ![j] = "FAILURE"]

\* A worker starts an execution of a task that fetches first:
\* data = run_async(service.get_...()); if data: ... else return error.
JobFetch(j, d) ==
    /\ jpc[j] = "queued"
    /\ kind[j] # "ingest_tle_data"
    /\ d \in FetchResults(kind[j])
    /\ data' = [data EXCEPT ![j] = d]
    /\ pending' = [pending EXCEPT ![j] = <<>>]
    /\ skipped' = [skipped EXCEPT ![j] = <<>>]
    /\ inserted' = [inserted EXCEPT ![j] = 0]
    /\ raised' = [raised EXCEPT ![j] = None]
    /\ IF Truthy(d)
       THEN /\ jpc' = [jpc EXCEPT ![j] = "items"]
            /\ idx' = [idx EXCEPT ![j] = 1]
            /\ status' = status
       ELSE /\ jpc' = [jpc EXCEPT ![j] = "done"]
            /\ idx' = [idx EXCEPT ![j] = 0]
            /\ status' = [status EXCEPT ![j] = "error"]
    /\ UNCHANGED <<store, kind, retries, prior>>

\* One pass of the item loop: the existence query (tasks that have one) and
\* session.add.  The query sees committed rows only (autoflush=False).
JobItem(j) ==
    /\ jpc[j] = "items"
    /\ LET key == data[j].items[idx[j]]
       IN  IF ChecksExisting(kind[j]) /\ Stored(store, Table(kind[j]), key)
           THEN /\ skipped' = [skipped EXCEPT ![j] = Append(skipped[j], key)]
                /\ pending' = pending
           ELSE /\ pending' = [pending EXCEPT ![j] = Append(pending[j], key)]
                /\ skipped' = skipped
    /\ idx' = [idx EXCEPT ![j] = idx[j] + 1]
    /\ jpc' = [jpc EXCEPT ![j] =
                  IF idx[j] = Len(data[j].items) THEN "commit" ELSE "items"]
    /\ UNCHANGED <<store, kind, data, retries, status, raised, inserted, prior>>

\* a commit that keeps the rows inserted before the one that violates the
\* constraint
JobCommitKeepsInserted(j) ==
    /\ jpc[j] = "commit"
    /\ IF DuplicateKeys(store, Table(kind[j]), pending[j]) # {}
       THEN /\ store' = IF Stored(store, Table(kind[j]), pending[j][1])
                        THEN store
                        ELSE store \cup Rows(j, Table(kind[j]),
                                             <<pending[j][1]>>, retries[j])
            /\ inserted' = inserted
            /\ Retry(j, "IntegrityError")
       ELSE /\ store' = store \cup
                  Rows(j, Table(kind[j]), pending[j], retries[j])
            /\ inserted' = [inserted EXCEPT ![j] = Len(pending[j])]
            /\ IF kind[j] = "ingest_apod" /\ data[j].shape = "list"
               THEN Retry(j, "NameError")
               ELSE /\ jpc' = [jpc EXCEPT ![j] = "done"]
                    /\ status' = [status EXCEPT ![j] = "success"]
                    /\ UNCHANGED <<retries, raised>>
    /\ idx' = [idx EXCEPT ![j] = 0]
    /\ pending' = [pending EXCEPT ![j] = <<>>]
    /\ UNCHANGED <<kind, data, skipped, prior>>

\* await session.commit() and what follows it in the task
JobCommit(j) ==
    /\ jpc[j] = "commit"
    /\ IF DuplicateKeys(store, Table(kind[j]), pending[j]) # {}
       THEN \* IntegrityError: the transaction is rolled back
            /\ store' = store
            /\ inserted' = inserted
            /\ Retry(j, "IntegrityError")
       ELSE /\ store' = store \cup
                  Rows(j, Table(kind[j]), pending[j], retries[j])
            /\ inserted' = [inserted EXCEPT ![j] = Len(pending[j])]
            /\ IF kind[j] = "ingest_apod" /\ data[j].shape = "list"
               THEN \* len(items): items is local to save_apod
                    Retry(j, "NameError")
               ELSE /\ jpc' = [jpc EXCEPT ![j] = "done"]
                    /\ status' = [status EXCEPT ![j] = "success"]
                    /\ UNCHANGED <<retries, raised>>
    /\ idx' = [idx EXCEPT ![j] = 0]
    /\ pending' = [pending EXCEPT ![j] = <<>>]
    /\ UNCHANGED <<kind, data, skipped, prior>>

\* ingest_tle_data: save_tle calls run_async from inside the running event
\* loop, loop.run_until_complete raises RuntimeError before anything is added.
TleExecute(j) ==
    /\ jpc[j] = "queued"
    /\ kind[j] = "ingest_tle_data"
    /\ Retry(j, "RuntimeError")
    /\ UNCHANGED <<store, kind, data, idx, pending, skipped, inserted, prior>>

Next ==
    \/ \E j \in Jobs, k \in Kinds : Delay(j, k) /\ UNCHANGED <<fetchVars, taskVars, batchVars, beatVars, keyVars>>
    \/ \E j \in Jobs : \E d \in FetchResults(kind[j]) :
          JobFetch(j, d) /\ UNCHANGED <<fetchVars, taskVars, batchVars, beatVars, keyVars>>
    \/ \E j \in Jobs : JobItem(j) /\ UNCHANGED <<fetchVars, taskVars, batchVars, beatVars, keyVars>>
    \/ \E j \in Jobs : JobCommit(j) /\ UNCHANGED <<fetchVars, taskVars, batchVars, beatVars, keyVars>>
    \/ \E j \in Jobs : TleExecute(j) /\ UNCHANGED <<fetchVars, taskVars, batchVars, beatVars, keyVars>>

Spec == Init /\ [][Next]_vars

FetchNext ==
    \/ \E cls \in Classes, url \in Urls, params \in ParamChoices,
          redis \in BOOLEAN :
             /\ calls < MaxCalls
             /\ FetchCall(cls, url, params, redis)
             /\ UNCHANGED <<jobVars, taskVars, batchVars, beatVars, keyVars>>
    \/ \E payload \in Payloads : Attempt200(payload) /\ UNCHANGED <<jobVars, taskVars, batchVars, beatVars, keyVars>>
    \/ Attempt429 /\ UNCHANGED <<jobVars, taskVars, batchVars, beatVars, keyVars>>
    \/ AttemptError /\ UNCHANGED <<jobVars, taskVars, batchVars, beatVars, keyVars>>
    \/ AttemptTimeout /\ UNCHANGED <<jobVars, taskVars, batchVars, beatVars, keyVars>>
    \/ AttemptException /\ UNCHANGED <<jobVars, taskVars, batchVars, beatVars, keyVars>>
    \/ FetchReturn /\ UNCHANGED <<jobVars, taskVars, batchVars, beatVars, keyVars>>
    \/ Tick /\ UNCHANGED <<jobVars, taskVars, batchVars, beatVars, keyVars>>

FetchSpec == Init /\ [][FetchNext]_vars

(***************************************************************************)
(* One ingestion task from .delay() to its end, the service call included  *)
(***************************************************************************)
TaskKinds ==
    {"ingest_apod", "ingest_asteroids_today", "ingest_donki_flares",
     "ingest_epic_imagery", "ingest_eonet_events",
     "ingest_habitable_exoplanets", "ingest_nasa_images", "ingest_cneos_data"}

\* services whose method goes through NASAAPIBase.fetch; the others issue one
\* session.get of their own
UsesFetch(k) ==
    k \in {"ingest_apod", "ingest_asteroids_today", "ingest_donki_flares",
           "ingest_epic_imagery"}

ServiceOf(k) ==
    CASE k = "ingest_apod" -> "APODService"
      [] k = "ingest_asteroids_today" -> "AsteroidsNeoWSService"
      [] k = "ingest_donki_flares" -> "DONKIService"
      [] k = "ingest_epic_imagery" -> "EPICService"
      [] k = "ingest_eonet_events" -> "EONETService"
      [] k = "ingest_habitable_exoplanets" -> "ExoplanetService"
      [] k = "ingest_nasa_images" -> "NASAImageLibraryService"
      [] k = "ingest_cneos_data" -> "CNEOSService"

\* tasks that look for their items under a key of the answer:
\* `if data and '<key>' in data`; the others test `if data`
Container(k) ==
    k \in {"ingest_asteroids_today", "ingest_asteroids_by_date",
           "ingest_eonet_events", "ingest_habitable_exoplanets",
           "ingest_nasa_images", "ingest_cneos_data",
           "ingest_techport_projects", "ingest_techtransfer_spinoffs"}

\* What a 200 answer can hold: a list of items, `bad` the positions of the
\* malformed ones; an object without the key the task looks for; (APOD, EPIC)
\* a single item.
TaskPayloads(k) ==
    UNION {{[shape |-> "list", items |-> l, bad |-> b] :
                b \in SUBSET (1..Len(l))} : l \in ItemLists}
      \cup (IF Container(k)
            THEN {[shape |-> "nokey", items |-> <<>>, bad |-> {}]}
            ELSE {})
      \cup (IF k \in {"ingest_apod", "ingest_epic_imagery"}
            THEN {[shape |-> "dict", items |-> <<key>>, bad |-> b] :
                    key \in Keys, b \in SUBSET {1}}
            ELSE {})

\* the test that guards the save: `if data` / `if data and '<key>' in data`
Proceeds(k, d) ==
    IF Container(k) THEN d.shape = "list" ELSE Truthy(d)

\* `if close_approaches:` is false for item i: the asteroid came with an empty
\* close_approach_data list (answers that do not tell hold none of these)
NoApproach(k, d, i) ==
    /\ k \in {"ingest_asteroids_today", "ingest_asteroids_by_date"}
    /\ "empty" \in DOMAIN d
    /\ d.items[i] \in d.empty

\* Building the record of item i raises: the item is malformed, or (NASA
\* images) datetime.fromisoformat is given the secondary_creator field.
Raises(k, d, i) ==
    \/ k = "ingest_nasa_images"
    \/ i \in d.bad /\ ~NoApproach(k, d, i)

ItemError(k) ==
    CASE k = "ingest_asteroids_today" -> "KeyError"
      [] k = "ingest_asteroids_by_date" -> "KeyError"
      [] k = "ingest_apod" -> "AttributeError"
      [] OTHER -> "ValueError"

\* A worker starts an execution of the task: the service is constructed
\* without a redis client and its method is awaited.
Execute(j) ==
    /\ jpc[j] = "queued"
    /\ kind[j] \in TaskKinds
    /\ fpc = "idle"
    /\ before' = [before EXCEPT ![j] = store]
    /\ data' = [data EXCEPT ![j] = NoData]
    /\ pending' = [pending EXCEPT ![j] = <<>>]
    /\ skipped' = [skipped EXCEPT ![j] = <<>>]
    /\ inserted' = [inserted EXCEPT ![j] = 0]
    /\ raised' = [raised EXCEPT ![j] = None]
    /\ idx' = [idx EXCEPT ![j] = 0]
    /\ IF UsesFetch(kind[j])
       THEN /\ FetchCall(ServiceOf(kind[j]), BaseUrl, <<>>, FALSE)
            /\ jpc' = [jpc EXCEPT ![j] = "fetch"]
       ELSE /\ jpc' = [jpc EXCEPT ![j] = "request"]
            /\ netCalls' = 0
            /\ responses' = <<>>
            /\ UNCHANGED <<cache, now, ticks, calls, fpc, fcall, attempt,
                           sleeps, result, hitFrom, lastOk>>
    /\ UNCHANGED <<store, kind, retries, status, prior, netTotal>>

\* fetch carries the answer as it came, the task looks into it
PayloadText(d) == ToString(d)

AllPayloads == UNION {TaskPayloads(k) : k \in TaskKinds}

PayloadOf ==
    [text \in {PayloadText(d) : d \in AllPayloads} |->
        CHOOSE d \in AllPayloads : PayloadText(d) = text]

\* What fetch hands to the task: the payload of the 200 answer its last
\* attempt met, None (no data) after any other end of the call.
Fetched(j) ==
    IF responses # <<>> /\ responses[Len(responses)] = "200"
    THEN PayloadOf[result] ELSE NoData

\* one more session.get on behalf of job j
NetCall(j) == netTotal' = [netTotal EXCEPT ![j] = netTotal[j] + 1]

\* The task has its data: the test that guards the save.
Deliver(j, d) ==
    /\ data' = [data EXCEPT ![j] = d]
    /\ IF Proceeds(kind[j], d)
       THEN /\ jpc' = [jpc EXCEPT ![j] =
                         IF d.items = <<>> THEN "commit" ELSE "items"]
            /\ idx' = [idx EXCEPT ![j] = 1]
            /\ status' = status
       ELSE /\ jpc' = [jpc EXCEPT ![j] = "done"]
            /\ idx' = [idx EXCEPT ![j] = 0]
            /\ status' = [status EXCEPT ![j] = "error"]

\* a fetch failure that raises into the task
TaskReceiveRaises(j) ==
    /\ jpc[j] = "fetch"
    /\ FetchReturn
    /\ LET d == Fetched(j)
       IN  IF d = NoData
           THEN /\ Retry(j, "FetchFailure")
                /\ UNCHANGED <<data, idx>>
           ELSE /\ Deliver(j, d)
                /\ UNCHANGED <<retries, raised>>
    /\ UNCHANGED <<store, kind, pending, skipped, inserted, prior, taskVars>>

\* fetch returns to the task: data = run_async(service.get_...())
TaskReceive(j) ==
    /\ jpc[j] = "fetch"
    /\ FetchReturn
    /\ LET d == Fetched(j) IN Deliver(j, d)
    /\ UNCHANGED <<store, kind, pending, skipped, retries, raised, inserted,
                   prior, taskVars>>

\* The service methods that do not use fetch: one session.get under the 30 s
\* timeout; 200 returns the parsed answer, any other status returns None, a
\* timeout or another exception is raised into the task.
DirectRequest(j, resp, d) ==
    /\ jpc[j] = "request"
    /\ NetCall(j)
    /\ netCalls' = netCalls + 1
    /\ responses' = Append(responses, resp)
    /\ CASE resp = "200" ->
              Deliver(j, d) /\ UNCHANGED <<retries, raised>>
         [] resp \in {"429", "error"} ->
              Deliver(j, NoData) /\ UNCHANGED <<retries, raised>>
         [] resp = "timeout" ->
              Retry(j, "TimeoutError") /\ UNCHANGED <<data, idx>>
         [] resp = "exception" ->
              Retry(j, "ClientError") /\ UNCHANGED <<data, idx>>
    /\ UNCHANGED <<cache, now, ticks, calls, fpc, fcall, attempt, sleeps,
                   result, hitFrom, lastOk>>
    /\ UNCHANGED <<store, kind, pending, skipped, inserted, prior, before>>

Digits == <<"0", "1", "2", "3", "4", "5", "6", "7", "8", "9">>

\* int(text) does not raise ValueError: the text, a sequence of characters,
\* is a run of decimal digits
IsInt(text) ==
    /\ text # <<>>
    /\ \A i \in 1..Len(text) : text[i] \in Range(Digits)

\* int(text) for a run of decimal digits
RECURSIVE int(_)
int(text) ==
    IF text = <<>> THEN 0
    ELSE 10 * int(SubSeq(text, 1, Len(text) - 1))
           + (CHOOSE n \in 0..9 : Digits[n + 1] = text[Len(text)]) 

\* save_insight passes over the top-level key: it is 'disclaimer' or
\* 'validity_checks', or int(sol_key) raises ValueError
Ignored(k, text) ==
    /\ k = "ingest_insight_weather"
    /\ \/ text = <<"disclaimer">>
       \/ text = <<"validity_checks">>
       \/ ~IsInt(text)

\* the value of the natural-key column for an item: sol = int(sol_key) in
\* save_insight, the item's own key elsewhere
NaturalKey(k, item) ==
    IF k = "ingest_insight_weather" THEN int(item) ELSE item

\* a record is added for an asteroid without a close approach as well
AddsWithoutApproach(k, d, i) ==
    IF k = "ingest_asteroids_by_date" /\ d.items[i] \in d.multi
    THEN <<d.items[i], d.items[i]>>
    ELSE <<d.items[i]>>

\* The keys session.add is called with for item i: the item's key, once; in
\* ingest_asteroids_by_date once for each close approach of the asteroid;
\* none for an asteroid without a close approach.
Adds(k, d, i) ==
    IF NoApproach(k, d, i)
    THEN <<>>
    ELSE IF k = "ingest_asteroids_by_date" /\ d.items[i] \in d.multi
    THEN <<d.items[i], d.items[i]>>
    ELSE <<NaturalKey(k, d.items[i])>>

\* an item loop that commits what it has added when an item raises
TaskItemKeepsEarlier(j) ==
    /\ jpc[j] = "items"
    /\ LET i   == idx[j]
           key == data[j].items[i]
           k   == kind[j]
           on  == /\ idx' = [idx EXCEPT ![j] = idx[j] + 1]
                  /\ jpc' = [jpc EXCEPT ![j] =
                               IF idx[j] = Len(data[j].items)
                               THEN "commit" ELSE "items"]
                  /\ UNCHANGED <<retries, status, raised>>
       IN  IF ChecksExisting(k) /\ Stored(store, Table(k), key)
           THEN /\ skipped' = [skipped EXCEPT ![j] = Append(skipped[j], key)]
                /\ UNCHANGED <<store, pending>>
                /\ on
           ELSE IF Raises(k, data[j], i)
           THEN /\ Retry(j, ItemError(k))
                /\ store' = store \cup Rows(j, Table(k), pending[j], retries[j])
                /\ pending' = [pending EXCEPT ![j] = <<>>]
                /\ idx' = [idx EXCEPT ![j] = 0]
                /\ skipped' = skipped
           ELSE /\ pending' = [pending EXCEPT ![j] =
                                 pending[j] \o Adds(k, data[j], i)]
                /\ UNCHANGED <<store, skipped>>
                /\ on
    /\ UNCHANGED <<kind, data, inserted, prior>>

\* an item loop that writes the fetched item over the row it finds stored
TaskItemOverwrites(j) ==
    /\ jpc[j] = "items"
    /\ LET i   == idx[j]
           key == data[j].items[i]
           k   == kind[j]
           on  == /\ idx' = [idx EXCEPT ![j] = idx[j] + 1]
                  /\ jpc' = [jpc EXCEPT ![j] =
                               IF idx[j] = Len(data[j].items)
                               THEN "commit" ELSE "items"]
                  /\ UNCHANGED <<retries, status, raised>>
       IN  IF ChecksExisting(k) /\ Stored(store, Table(k), key)
           THEN /\ store' = {r \in store : ~(r.table = Table(k) /\ r.key = key)}
                              \cup {[table |-> Table(k), key |-> key,
                                     by |-> <<j, retries[j], i>>]}
                /\ skipped' = [skipped EXCEPT ![j] = Append(skipped[j], key)]
                /\ pending' = pending
                /\ on
           ELSE IF Raises(k, data[j], i)
           THEN /\ Retry(j, ItemError(k))
                /\ pending' = [pending EXCEPT ![j] = <<>>]
                /\ idx' = [idx EXCEPT ![j] = 0]
                /\ UNCHANGED <<store, skipped>>
           ELSE /\ pending' = [pending EXCEPT ![j] =
                                 pending[j] \o Adds(k, data[j], i)]
                /\ UNCHANGED <<store, skipped>>
                /\ on
    /\ UNCHANGED <<kind, data, inserted, prior>>

\* the item loop without the existence query
TaskItemNoCheck(j) ==
    /\ jpc[j] = "items"
    /\ LET i   == idx[j]
           k   == kind[j]
           on  == /\ idx' = [idx EXCEPT ![j] = idx[j] + 1]
                  /\ jpc' = [jpc EXCEPT ![j] =
                               IF idx[j] = Len(data[j].items)
                               THEN "commit" ELSE "items"]
                  /\ UNCHANGED <<retries, status, raised>>
       IN  IF Raises(k, data[j], i)
           THEN /\ Retry(j, ItemError(k))
                /\ pending' = [pending EXCEPT ![j] = <<>>]
                /\ idx' = [idx EXCEPT ![j] = 0]
                /\ skipped' = skipped
           ELSE /\ pending' = [pending EXCEPT ![j] =
                                 pending[j] \o Adds(k, data[j], i)]
                /\ skipped' = skipped
                /\ on
    /\ UNCHANGED <<store, kind, data, inserted, prior>>

\* int(sol_key) outside a try: a key that is no number ends the execution
TaskItemIntRaises(j) ==
    /\ jpc[j] = "items"
    /\ LET i   == idx[j]
           k   == kind[j]
           key == NaturalKey(k, data[j].items[i])
           on  == /\ idx' = [idx EXCEPT ![j] = idx[j] + 1]
                  /\ jpc' = [jpc EXCEPT ![j] =
                               IF idx[j] = Len(data[j].items)
                               THEN "commit" ELSE "items"]
                  /\ UNCHANGED <<retries, status, raised>>
       IN  IF Ignored(k, data[j].items[i]) /\ ~IsInt(data[j].items[i])
           THEN /\ Retry(j, "ValueError")
                /\ pending' = [pending EXCEPT ![j] = <<>>]
                /\ idx' = [idx EXCEPT ![j] = 0]
                /\ skipped' = skipped
           ELSE IF Ignored(k, data[j].items[i])
           THEN /\ skipped' = skipped
                /\ pending' = pending
                /\ on
           ELSE IF ChecksExisting(k) /\ Stored(store, Table(k), key)
           THEN /\ skipped' = [skipped EXCEPT ![j] = Append(skipped[j], key)]
                /\ pending' = pending
                /\ on
           ELSE IF Raises(k, data[j], i)
           THEN /\ Retry(j, ItemError(k))
                /\ pending' = [pending EXCEPT ![j] = <<>>]
                /\ idx' = [idx EXCEPT ![j] = 0]
                /\ skipped' = skipped
           ELSE /\ pending' = [pending EXCEPT ![j] =
                                 pending[j] \o Adds(k, data[j], i)]
                /\ skipped' = skipped
                /\ on
    /\ UNCHANGED <<store, kind, data, inserted, prior>>

\* One pass of the item loop: the existence query (tasks that have one), the
\* construction of the record and session.add.  An exception leaves the
\* session block without a commit and reaches the task's except clause.
TaskItem(j) ==
    /\ jpc[j] = "items"
    /\ LET i   == idx[j]
           k   == kind[j]
           key == NaturalKey(k, data[j].items[i])
           on  == /\ idx' = [idx EXCEPT ![j] = idx[j] + 1]
                  /\ jpc' = [jpc EXCEPT ![j] =
                               IF idx[j] = Len(data[j].items)
                               THEN "commit" ELSE "items"]
                  /\ UNCHANGED <<retries, status, raised>>
       IN  IF Ignored(k, data[j].items[i])
           THEN /\ skipped' = skipped
                /\ pending' = pending
                /\ on
           ELSE IF ChecksExisting(k) /\ Stored(store, Table(k), key)
           THEN /\ skipped' = [skipped EXCEPT ![j] = Append(skipped[j], key)]
                /\ pending' = pending
                /\ on
           ELSE IF Raises(k, data[j], i)
           THEN /\ Retry(j, ItemError(k))
                /\ pending' = [pending EXCEPT ![j] = <<>>]
                /\ idx' = [idx EXCEPT ![j] = 0]
                /\ skipped' = skipped
           ELSE /\ pending' = [pending EXCEPT ![j] =
                                 pending[j] \o Adds(k, data[j], i)]
                /\ skipped' = skipped
                /\ on
    /\ UNCHANGED <<store, kind, data, inserted, prior>>

\* the job the task specification follows
TaskJob == 1

TaskNext ==
    \/ \E k \in TaskKinds :
          Delay(TaskJob, k) /\ UNCHANGED <<fetchVars, taskVars, batchVars, beatVars, keyVars>>
    \/ Execute(TaskJob) /\ UNCHANGED <<batchVars, beatVars, keyVars>>
    \/ /\ jpc[TaskJob] = "fetch"
       /\ fpc = "attempt"
       /\ \E d \in TaskPayloads(kind[TaskJob]) :
             /\ Respond200(PayloadText(d))
             /\ NetCall(TaskJob)
             /\ UNCHANGED <<lastOk, jobVars, before, batchVars, beatVars, keyVars>>
    \/ /\ jpc[TaskJob] = "fetch"
       /\ Attempt429
       /\ NetCall(TaskJob)
       /\ UNCHANGED <<jobVars, before, batchVars, beatVars, keyVars>>
    \/ /\ jpc[TaskJob] = "fetch"
       /\ AttemptError
       /\ NetCall(TaskJob)
       /\ UNCHANGED <<jobVars, before, batchVars, beatVars, keyVars>>
    \/ /\ jpc[TaskJob] = "fetch"
       /\ AttemptTimeout
       /\ NetCall(TaskJob)
       /\ UNCHANGED <<jobVars, before, batchVars, beatVars, keyVars>>
    \/ /\ jpc[TaskJob] = "fetch"
       /\ AttemptException
       /\ NetCall(TaskJob)
       /\ UNCHANGED <<jobVars, before, batchVars, beatVars, keyVars>>
    \/ TaskReceive(TaskJob) /\ UNCHANGED <<batchVars, beatVars, keyVars>>
    \/ /\ jpc[TaskJob] = "request"
       /\ \E resp \in {"200", "429", "error", "timeout", "exception"} :
             \E d \in (IF resp = "200" THEN TaskPayloads(kind[TaskJob])
                       ELSE {NoData}) :
                DirectRequest(TaskJob, resp, d) /\ UNCHANGED <<batchVars, beatVars, keyVars>>
    \/ TaskItem(TaskJob) /\ UNCHANGED <<fetchVars, taskVars, batchVars, beatVars, keyVars>>
    \/ JobCommit(TaskJob) /\ UNCHANGED <<fetchVars, taskVars, batchVars, beatVars, keyVars>>

TaskSpec == Init /\ [][TaskNext]_vars

\* every step of a task changes one of these
progress == <<jpc, idx, netTotal>>

\* the task that has not ended takes a step
\* A worker is there to run what is enqueued, every session.get ends within
\* its timeout, and the countdown of a retry elapses.
TaskLiveSpec == TaskSpec /\ WF_progress(TaskNext)

(***************************************************************************)
(* ingest_all_nasa_data and the tasks it enqueues                          *)
(***************************************************************************)
\* the .delay() calls of ingest_all_nasa_data, in the order of its list
BatchTasks ==
    << "ingest_apod", "ingest_asteroids_today", "ingest_donki_flares",
       "ingest_donki_cme", "ingest_eonet_events", "ingest_epic_imagery",
       "ingest_habitable_exoplanets", "ingest_insight_weather",
       "ingest_nasa_images", "ingest_tle_data", "ingest_cneos_data",
       "ingest_techport_projects", "ingest_techtransfer_spinoffs" >>

\* the 16 entity kinds: the NASA tables of db_models.py
EntityKinds ==
    {"APOD", "AsteroidNeoWS", "DONKI", "EONET", "EPIC", "Exoplanet", "GIBS",
     "InSightWeather", "NASAImageLibrary", "OpenScience",
     "SatelliteSituationCenter", "CNEOS", "TechPort", "TechTransfer", "TLE",
     "TrekWMS"}

\* the entity kind a task stores
EntityOf(task) ==
    CASE task = "ingest_apod" -> "APOD"
      [] task = "ingest_asteroids_today" -> "AsteroidNeoWS"
      [] task = "ingest_donki_flares" -> "DONKI"
      [] task = "ingest_donki_cme" -> "DONKI"
      [] task = "ingest_eonet_events" -> "EONET"
      [] task = "ingest_epic_imagery" -> "EPIC"
      [] task = "ingest_habitable_exoplanets" -> "Exoplanet"
      [] task = "ingest_insight_weather" -> "InSightWeather"
      [] task = "ingest_nasa_images" -> "NASAImageLibrary"
      [] task = "ingest_tle_data" -> "TLE"
      [] task = "ingest_cneos_data" -> "CNEOS"
      [] task = "ingest_techport_projects" -> "TechPort"
      [] task = "ingest_techtransfer_spinoffs" -> "TechTransfer"

\* POST /ingest-all: task = ingest_all_nasa_data.delay(); the answer holds the
\* id of that task only.
IngestAllData ==
    /\ orch = "idle"
    /\ orch' = "queued"
    /\ nextId' = nextId + 1
    /\ UNCHANGED <<bjobs, handle>>

\* the ids of the tasks enqueued by the .delay() calls, in order
BatchIds == [i \in 1..Len(BatchTasks) |-> nextId + i - 1]

\* an orchestrator that waits for the result of each task it enqueued
IngestAllWaits ==
    /\ orch = "queued"
    /\ bjobs' = [id \in Range(BatchIds) |->
                    [task |-> BatchTasks[id - nextId + 1], state |-> "done"]]
    /\ handle' = [status |-> "queued", task_count |-> Len(BatchIds),
                  task_ids |-> BatchIds]
    /\ nextId' = nextId + Len(BatchTasks)
    /\ orch' = "returned"

\* A worker runs ingest_all_nasa_data: every task of the list is enqueued and
\* the dict with their ids is returned.
IngestAllNasaData ==
    /\ orch = "queued"
    /\ bjobs' = [id \in Range(BatchIds) |->
                    [task |-> BatchTasks[id - nextId + 1], state |-> "queued"]]
    /\ handle' = [status |-> "queued", task_count |-> Len(BatchIds),
                  task_ids |-> BatchIds]
    /\ nextId' = nextId + Len(BatchTasks)
    /\ orch' = "returned"

\* an enqueued task reaches its end (success, error or FAILURE)
BatchJobEnd(id) ==
    /\ bjobs[id].state = "queued"
    /\ bjobs' = [bjobs EXCEPT ![id].state = "done"]
    /\ UNCHANGED <<orch, handle, nextId>>

BatchNext ==
    \/ IngestAllData /\ UNCHANGED <<fetchVars, jobVars, taskVars, beatVars, keyVars>>
    \/ IngestAllNasaData /\ UNCHANGED <<fetchVars, jobVars, taskVars, beatVars, keyVars>>
    \/ \E id \in DOMAIN bjobs :
          BatchJobEnd(id) /\ UNCHANGED <<fetchVars, jobVars, taskVars, beatVars, keyVars>>

BatchSpec == Init /\ [][BatchNext]_vars

(***************************************************************************)
(* Tasks running while the database can become unreachable                 *)
(***************************************************************************)
\* an outage that ends every task with an open session
StoreUnavailableEndsAll(j) ==
    /\ \/ jpc[j] = "items" /\ ChecksExisting(kind[j])
       \/ jpc[j] = "commit" /\ data[j].items # <<>>
    /\ jpc' = [i \in Jobs |->
                  IF jpc[i] \in {"items", "commit"} THEN "done" ELSE jpc[i]]
    /\ status' = [i \in Jobs |->
                  IF jpc[i] \in {"items", "commit"} THEN "FAILURE"
                  ELSE status[i]]
    /\ raised' = [i \in Jobs |->
                  IF jpc[i] \in {"items", "commit"} THEN "OperationalError"
                  ELSE raised[i]]
    /\ pending' = [i \in Jobs |->
                  IF jpc[i] \in {"items", "commit"} THEN <<>> ELSE pending[i]]
    /\ idx' = [i \in Jobs |->
                  IF jpc[i] \in {"items", "commit"} THEN 0 ELSE idx[i]]
    /\ UNCHANGED <<store, kind, data, skipped, retries, inserted, prior>>

\* The database cannot be reached: the statement the session of task j sends
\* (the existence query, or the flush and COMMIT of session.commit()) raises
\* OperationalError, which leaves the session block and reaches the task's
\* except clause.  Each task has a session of its own.
StoreUnavailable(j) ==
    /\ \/ jpc[j] = "items" /\ ChecksExisting(kind[j])
       \/ jpc[j] = "commit" /\ data[j].items # <<>>
    /\ Retry(j, "OperationalError")
    /\ pending' = [pending EXCEPT ![j] = <<>>]
    /\ idx' = [idx EXCEPT ![j] = 0]
    /\ UNCHANGED <<store, kind, data, skipped, inserted, prior>>

\* the answers of this specification: at most OutageItems items each
OutageAnswers(k) == {d \in FetchResults(k) : Len(d.items) <= OutageItems}

OutageNext ==
    \/ \E j \in Jobs, k \in Kinds :
          Delay(j, k) /\ UNCHANGED <<fetchVars, taskVars, batchVars, beatVars, keyVars>>
    \/ \E j \in Jobs : \E d \in OutageAnswers(kind[j]) :
          JobFetch(j, d) /\ UNCHANGED <<fetchVars, taskVars, batchVars, beatVars, keyVars>>
    \/ \E j \in Jobs :
          JobItem(j) /\ UNCHANGED <<fetchVars, taskVars, batchVars, beatVars, keyVars>>
    \/ \E j \in Jobs :
          JobCommit(j) /\ UNCHANGED <<fetchVars, taskVars, batchVars, beatVars, keyVars>>
    \/ \E j \in Jobs :
          TleExecute(j) /\ UNCHANGED <<fetchVars, taskVars, batchVars, beatVars, keyVars>>
    \/ \E j \in Jobs :
          StoreUnavailable(j) /\ UNCHANGED <<fetchVars, taskVars, batchVars, beatVars, keyVars>>
    \/ IngestAllData /\ UNCHANGED <<fetchVars, jobVars, taskVars, beatVars, keyVars>>
    \/ IngestAllNasaData /\ UNCHANGED <<fetchVars, jobVars, taskVars, beatVars, keyVars>>

OutageSpec == Init /\ [][OutageNext]_vars

(***************************************************************************)
(* Check-then-insert tasks sharing the store                               *)
(***************************************************************************)
\* asteroids the feed can list with two close approaches
MultiKeys == {"k1"}

\* items the answer can hold in a malformed state
BadKeys == {"k2"}

\* What the service call of an execution can hand to the task: None, a list
\* of items (some of them malformed, some asteroids with two close
\* approaches), an object without the key the task looks for, or
\* (ingest_apod_range) a single item.
StoreAnswers(k) ==
    {NoData}
      \cup UNION {{[shape |-> "list", items |-> l,
                    bad |-> {i \in 1..Len(l) : l[i] \in b}, multi |-> m] :
                      b \in SUBSET (BadKeys \cap Range(l)),
                      m \in SUBSET (IF k = "ingest_asteroids_by_date"
                                    THEN MultiKeys \cap Range(l) ELSE {})} :
                  l \in ItemLists}
      \cup (IF Container(k)
            THEN {[shape |-> "nokey", items |-> <<>>, bad |-> {},
                   multi |-> {}]}
            ELSE {})
      \cup (IF k = "ingest_apod_range"
            THEN {[shape |-> "dict", items |-> <<key>>, bad |-> {},
                   multi |-> {}] : key \in Keys}
            ELSE {})

\* A worker starts an execution of the task; its service call returns d and
\* the task tests what it got.
Start(j, d) ==
    /\ jpc[j] = "queued"
    /\ before' = [before EXCEPT ![j] = store]
    /\ pending' = [pending EXCEPT ![j] = <<>>]
    /\ skipped' = [skipped EXCEPT ![j] = <<>>]
    /\ inserted' = [inserted EXCEPT ![j] = 0]
    /\ raised' = [raised EXCEPT ![j] = None]
    /\ Deliver(j, d)
    /\ UNCHANGED <<store, kind, retries, prior, netTotal>>

\* tasks that skip the items they find stored
SkipKinds == {"ingest_apod_range", "ingest_techport_projects"}

SkipNext ==
    \/ \E j \in Jobs, k \in SkipKinds :
          Delay(j, k) /\ UNCHANGED <<fetchVars, taskVars, batchVars, beatVars, keyVars>>
    \/ \E j \in Jobs : \E d \in StoreAnswers(kind[j]) :
          Start(j, d) /\ UNCHANGED <<fetchVars, batchVars, beatVars, keyVars>>
    \/ \E j \in Jobs :
          TaskItem(j) /\ UNCHANGED <<fetchVars, taskVars, batchVars, beatVars, keyVars>>
    \/ \E j \in Jobs :
          JobCommit(j) /\ UNCHANGED <<fetchVars, taskVars, batchVars, beatVars, keyVars>>

SkipSpec == Init /\ [][SkipNext]_vars

\* tasks whose answer lists the items under a key, in the order of the feed
OrderKinds == {"ingest_asteroids_by_date", "ingest_techtransfer_spinoffs"}

OrderNext ==
    \/ \E j \in Jobs, k \in OrderKinds :
          Delay(j, k) /\ UNCHANGED <<fetchVars, taskVars, batchVars, beatVars, keyVars>>
    \/ \E j \in Jobs : \E d \in StoreAnswers(kind[j]) :
          Start(j, d) /\ UNCHANGED <<fetchVars, batchVars, beatVars, keyVars>>
    \/ \E j \in Jobs :
          TaskItem(j) /\ UNCHANGED <<fetchVars, taskVars, batchVars, beatVars, keyVars>>
    \/ \E j \in Jobs :
          JobCommit(j) /\ UNCHANGED <<fetchVars, taskVars, batchVars, beatVars, keyVars>>

OrderSpec == Init /\ [][OrderNext]_vars

(***************************************************************************)
(* celery beat and the periodic tasks                                      *)
(***************************************************************************)
\* the crontab of entry e matches the time t
crontab(e, t) == t % beat_schedule[e].every = 0

\* Half an hour passes; beat sends the task of every entry whose crontab
\* matches the new time.
BeatTick ==
    /\ beatNow < MaxBeats
    /\ beatNow' = beatNow + 1
    /\ beatSent' = [task \in PeriodicTasks |->
                  beatSent[task] + Cardinality({e \in DOMAIN beat_schedule :
                                              /\ beat_schedule[e].task = task
                                              /\ crontab(e, beatNow + 1)})]
    /\ UNCHANGED beatRan

\* A worker runs a periodic task.  ingest_nasa_data and
\* ingest_space_weather_data print a line and return {"status": "success",
\* ... 0}; predict_solar_activity and generate_event_alerts are coroutine
\* functions whose body is not awaited.  None of them opens a fetch, writes
\* the store or enqueues a task.
RunPeriodic(task) ==
    /\ beatRan[task] < beatSent[task]
    /\ beatRan' = [beatRan EXCEPT ![task] = beatRan[task] + 1]
    /\ UNCHANGED <<beatNow, beatSent>>

BeatNext ==
    \/ BeatTick /\ UNCHANGED <<fetchVars, jobVars, taskVars, batchVars, keyVars>>
    \/ \E task \in PeriodicTasks :
          RunPeriodic(task)
            /\ UNCHANGED <<fetchVars, jobVars, taskVars, batchVars, keyVars>>

BeatSpec == Init /\ [][BeatNext]_vars

(***************************************************************************)
(* POST /donki/refresh: two solar-flare tasks at once                      *)
(***************************************************************************)
\* refresh_donki: ingest_donki_flares.delay() twice, the two ids returned
refresh_donki ==
    /\ jpc[1] = "unused" /\ jpc[2] = "unused"
    /\ kind' = [j \in Jobs |->
                  IF j \in {1, 2} THEN "ingest_donki_flares" ELSE kind[j]]
    /\ jpc' = [j \in Jobs |-> IF j \in {1, 2} THEN "queued" ELSE jpc[j]]
    /\ UNCHANGED <<store, data, idx, pending, skipped, retries, status, raised,
                   inserted, prior>>

\* the answers of the feed whose events all carry their fields
RaceAnswers(k) ==
    {d \in StoreAnswers(k) : d.shape = "list" => d.bad = {}}

RaceNext ==
    \/ refresh_donki /\ UNCHANGED <<fetchVars, taskVars, batchVars, beatVars, keyVars>>
    \/ \E j \in Jobs : \E d \in RaceAnswers(kind[j]) :
          Start(j, d) /\ UNCHANGED <<fetchVars, batchVars, beatVars, keyVars>>
    \/ \E j \in Jobs :
          TaskItem(j) /\ UNCHANGED <<fetchVars, taskVars, batchVars, beatVars, keyVars>>
    \/ \E j \in Jobs :
          JobCommit(j) /\ UNCHANGED <<fetchVars, taskVars, batchVars, beatVars, keyVars>>

\* A worker runs what is enqueued, the countdown of a retry elapses, and the
\* steps of an execution end (task_time_limit).
RaceSpec == Init /\ [][RaceNext]_vars /\ WF_vars(RaceNext)

(***************************************************************************)
(* The cache key of two fetch calls                                        *)
(***************************************************************************)
\* URLs as text; the last two hold a ":" and pieces that read like the start
\* and the end of dumped params
KeyUrls ==
    { BaseUrl,
      <<"https", ":", "//u2">>,
      BaseUrl \o <<":", "{", "\"", "api_key", "\"">>,
      BaseUrl \o <<":", "{", "\"", "api_key", "\"", ": ", "\"", ApiKeyValue,
                   "\"", "}">> }

KeyValues == {"a", "b"}

\* the params a service passes: dicts in insertion order with up to two of
\* the names ranked 1 and 2 (no service passes 'api_key' itself)
KeyParams ==
    {<<>>}
      \cup {<<<<n, v>>>> : n \in 1..2, v \in KeyValues}
      \cup UNION {{<< <<n, v>>, <<m, w>> >> :
                      m \in (1..2) \ {n}, v \in KeyValues, w \in KeyValues} :
                   n \in 1..2}

KeyArgs == [cls : Classes, url : KeyUrls, params : KeyParams]

\* two services are asked for data: the arguments of their fetch calls
KeyCalls(c1, c2) ==
    /\ keyIn = <<>>
    /\ keyIn' = <<c1, c2>>
    /\ keyOut' = keyOut

\* the entry of fetch in each of the two calls: params['api_key'] is set and
\* the cache key is built
KeyBuild ==
    /\ keyIn # <<>>
    /\ keyOut = <<>>
    /\ keyOut' = [i \in 1..2 |->
                    CacheKey(keyIn[i].cls, keyIn[i].url,
                             DictSet(keyIn[i].params, ApiKeyName, ApiKeyValue))]
    /\ keyIn' = keyIn

KeyNext ==
    \/ \E c1 \in KeyArgs, c2 \in KeyArgs :
          KeyCalls(c1, c2)
            /\ UNCHANGED <<fetchVars, jobVars, taskVars, batchVars, beatVars>>
    \/ KeyBuild
         /\ UNCHANGED <<fetchVars, jobVars, taskVars, batchVars, beatVars>>

KeySpec == Init /\ [][KeyNext]_vars

(***************************************************************************)
(* ingest_asteroids_today                                                  *)
(***************************************************************************)
\* asteroids the feed can list with an empty close_approach_data
EmptyKeys == {"k2"}

\* What get_asteroids_today can hand to the task: None, an object without
\* 'near_earth_objects', or the asteroids of the day, some of them
\* malformed, some with two close approaches, some with none.
AsteroidAnswers ==
    {NoData, [shape |-> "nokey", items |-> <<>>, bad |-> {}, multi |-> {},
              empty |-> {}]}
      \cup UNION {{[shape |-> "list", items |-> l,
                    bad |-> {i \in 1..Len(l) : l[i] \in b},
                    multi |-> m, empty |-> e] :
                      b \in SUBSET (BadKeys \cap Range(l)),
                      m \in SUBSET (MultiKeys \cap Range(l)),
                      e \in SUBSET (EmptyKeys \cap Range(l))} :
                  l \in ItemLists}

AsteroidNext ==
    \/ \E j \in Jobs :
          Delay(j, "ingest_asteroids_today")
            /\ UNCHANGED <<fetchVars, taskVars, batchVars, beatVars, keyVars>>
    \/ \E j \in Jobs : \E d \in AsteroidAnswers :
          Start(j, d) /\ UNCHANGED <<fetchVars, batchVars, beatVars, keyVars>>
    \/ \E j \in Jobs :
          TaskItem(j) /\ UNCHANGED <<fetchVars, taskVars, batchVars, beatVars, keyVars>>
    \/ \E j \in Jobs :
          JobCommit(j) /\ UNCHANGED <<fetchVars, taskVars, batchVars, beatVars, keyVars>>

AsteroidSpec == Init /\ [][AsteroidNext]_vars

(***************************************************************************)
(* ingest_insight_weather                                                  *)
(***************************************************************************)
\* top-level keys of the answer, as text: sol numbers (two of them spell the
\* same sol) and the keys that are no sol
SolTexts == {<<"7">>, <<"0", "7">>, <<"8">>}

InsightKeys ==
    SolTexts \cup {<<"disclaimer">>, <<"validity_checks">>, <<"sol_keys">>}

\* sols whose sol_data can be malformed
BadSols == {<<"8">>}

\* What get_latest_weather can hand to the task: None, or an object whose
\* top-level keys come in the order of the answer, none of them twice.
InsightAnswers ==
    {NoData}
      \cup UNION {{[shape |-> "object", items |-> l,
                    bad |-> {i \in 1..Len(l) : l[i] \in b}] :
                      b \in SUBSET (BadSols \cap Range(l))} :
                  l \in {q \in UNION {[1..n -> InsightKeys] : n \in 0..MaxItems} :
                           NoRepeat(q)}}

InsightNext ==
    \/ \E j \in Jobs :
          Delay(j, "ingest_insight_weather")
            /\ UNCHANGED <<fetchVars, taskVars, batchVars, beatVars, keyVars>>
    \/ \E j \in Jobs : \E d \in InsightAnswers :
          Start(j, d) /\ UNCHANGED <<fetchVars, batchVars, beatVars, keyVars>>
    \/ \E j \in Jobs :
          TaskItem(j) /\ UNCHANGED <<fetchVars, taskVars, batchVars, beatVars, keyVars>>
    \/ \E j \in Jobs :
          JobCommit(j) /\ UNCHANGED <<fetchVars, taskVars, batchVars, beatVars, keyVars>>

InsightSpec == Init /\ [][InsightNext]_vars

(***************************************************************************)
(* Properties of the fetch client                                          *)
(***************************************************************************)
Count(seq, what) == Cardinality({i \in 1..Len(seq) : seq[i] = what})

\* C5: against an endpoint that answers every attempt with 429, one fetch call
\* makes at most max_retries = 3 network attempts and then returns None.
C5_RateLimitedBound ==
    (responses # <<>> /\ \A i \in 1..Len(responses) : responses[i] = "429")
        => /\ netCalls = Len(responses)
           /\ netCalls <= 3
           /\ (fpc = "done") <=> (netCalls = 3)
           /\ fpc = "done" => result = None

C5_Witness ==
    /\ fpc = "done"
    /\ responses = <<"429", "429", "429">>
    /\ netCalls = 3
    /\ result = None

\* C6: a response whose status is neither 200 nor 429 ends the call at once:
\* failure is returned, that attempt is the call's last, no delay is waited and
\* the cache is not written; met on the first attempt, it is the only attempt.
C6_HardFailureNoRetry ==
    [][ /\ (responses' # responses /\ responses' # <<>>
            /\ responses'[Len(responses')] = "error")
           => /\ fpc' = "done"
              /\ result' = None
              /\ netCalls' = netCalls + 1
              /\ (responses = <<>> => netCalls' = 1)
              /\ sleeps' = sleeps
              /\ cache' = cache
        /\ (responses # <<>> /\ responses[Len(responses)] = "error")
           => (responses' = responses \/ responses' = <<>>) ]_vars

C6_Witness ==
    /\ fpc = "done"
    /\ responses = <<"error">>
    /\ netCalls = 1
    /\ sleeps = 0
    /\ result = None
    /\ fcall.redis
    /\ fcall.key \notin DOMAIN cache

\* C7: 429 responses and timeouts draw on one attempt counter: whatever their
\* mix, a call makes at most max_retries network attempts, and after a
\* timeout at most max_retries - 1 further attempts follow.
C7_SharedAttemptCounter ==
    /\ netCalls = Len(responses)
    /\ netCalls <= max_retries
    /\ Count(responses, "429") + Count(responses, "timeout")
          = (IF fpc = "idle" THEN 0 ELSE attempt)
    /\ \A i \in 1..Len(responses) :
          responses[i] = "timeout" => Len(responses) - i <= max_retries - 1
    /\ (fpc = "attempt") => attempt < max_retries

C7_Witness ==
    /\ fpc = "done"
    /\ responses = <<"timeout", "429", "timeout">>
    /\ netCalls = max_retries
    /\ result = None

\* C8: a fetch made within the TTL of an earlier fetch of the same (source,
\* endpoint, params) that returned a payload makes no network call and
\* returns that payload.
C8_CacheCorrectness ==
    ( /\ fpc # "idle"
      /\ lastOk.call # 0
      /\ lastOk.call < calls
      /\ lastOk.key = <<fcall.cls, fcall.url, fcall.sorted>>
      /\ now - lastOk.t < cache_ttl )
        => /\ netCalls = 0
           /\ fpc = "done" => result = lastOk.payload

\* C9: the cache changes only when a 200 response arrives after a miss: the
\* entry of the call's key is set to the payload with expiry now + cache_ttl,
\* in the step that yields the payload; no other response changes the cache;
\* an expired entry is not served, the call goes to the network.
C9_CacheWriteDiscipline ==
    [][ /\ (cache' # cache)
           => /\ responses' = Append(responses, "200")
              /\ fcall.redis
              /\ hitFrom = None
              /\ fpc = "attempt" /\ fpc' = "done"
              /\ DOMAIN cache' = DOMAIN cache \cup {fcall.key}
              /\ \A k \in DOMAIN cache : k # fcall.key => cache'[k] = cache[k]
              /\ cache'[fcall.key].exp = now + cache_ttl
              /\ JsonLoads(cache'[fcall.key].val) = result'
        /\ (responses' = Append(responses, "200") /\ fcall.redis)
           => /\ fcall.key \in DOMAIN cache'
              /\ JsonLoads(cache'[fcall.key].val) = result'
              /\ cache'[fcall.key].exp = now + cache_ttl
        /\ (responses' # responses /\ responses' # <<>>
            /\ responses'[Len(responses')] # "200")
           => cache' = cache
        /\ (fpc = "idle" /\ fpc' # "idle")
           => /\ cache' = cache
              /\ (fpc' = "done")
                   <=> /\ fcall'.redis
                       /\ fcall'.key \in DOMAIN cache
                       /\ cache[fcall'.key].exp > now
              /\ fpc' = "done" => result' = JsonLoads(cache[fcall'.key].val)
              /\ fpc' = "attempt" \/ fpc' = "done" ]_vars

C9_Witness ==
    /\ fpc = "attempt"
    /\ fcall.redis
    /\ fcall.key \in DOMAIN cache
    /\ cache[fcall.key].exp <= now
    /\ responses = <<"429">>

\* C10: a call is served only from an entry written by its own source class,
\* and writes no entry written by another class.
C10_PerClassKeys ==
    [][ /\ (fpc' = "done" /\ hitFrom' # None) => hitFrom' = fcall'.cls
        /\ (cache' # cache)
           => \A k \in DOMAIN cache :
                cache[k].by # fcall.cls
                  => (k \in DOMAIN cache' /\ cache'[k] = cache[k]) ]_vars

C10_Witness ==
    /\ fpc = "attempt"
    /\ fcall.redis
    /\ \E k \in DOMAIN cache :
          /\ k = CacheKey(cache[k].by, fcall.url, fcall.sorted)
          /\ cache[k].by # fcall.cls
          /\ cache[k].exp > now

(***************************************************************************)
(* Properties of the ingestion tasks and the store                         *)
(***************************************************************************)
\* the latest execution of job j is over: it returned, or raised and the task
\* was enqueued again
Ended(j) == jpc[j] = "done" \/ (jpc[j] = "queued" /\ retries[j] > 0)

RowsOf(table, key) == {r \in store : r.table = table /\ r.key = key}

\* C1: the store never holds two rows with the same natural key in the same
\* table, whatever tasks run, interleave and are retried.
C1_NaturalKeyUnique ==
    \A r1, r2 \in store :
        (r1.table = r2.table /\ r1.key = r2.key) => r1 = r2

C1_Witness ==
    \E j \in Jobs :
        /\ raised[j] = "IntegrityError"
        /\ \E key \in Range(data[j].items) :
              Cardinality(RowsOf(Table(kind[j]), key)) = 1

\* C2: a task run again after a successful run of the same task, on identical
\* fetched data, inserts nothing, skips as many items as the first run
\* inserted, and returns success in that execution.
C2_IdempotentRerun ==
    \A a, b \in Jobs :
        ( /\ a \in prior[b]
          /\ kind[a] = kind[b]
          /\ data[a] = data[b]
          /\ skipped[a] = <<>>
          /\ \/ (jpc[b] = "done" /\ retries[b] = 0)
             \/ (jpc[b] = "queued" /\ retries[b] = 1) )
            => /\ jpc[b] = "done"
               /\ status[b] = "success"
               /\ inserted[b] = 0
               /\ Len(skipped[b]) = inserted[a]

\* C3: when two solar-flare tasks have both processed the same event key, one
\* row is stored for it, neither execution raised, and one of them skipped
\* the key as a duplicate.
C3_ConcurrentInsertOneSkips ==
    \A a, b \in Jobs : \A key \in Keys :
        ( /\ a # b
          /\ kind[a] = "ingest_donki_flares"
          /\ kind[b] = "ingest_donki_flares"
          /\ Ended(a) /\ Ended(b)
          /\ NoRepeat(data[a].items) /\ NoRepeat(data[b].items)
          /\ key \in Range(data[a].items)
          /\ key \in Range(data[b].items) )
            => /\ Cardinality(RowsOf("donki", key)) = 1
               /\ raised[a] = None /\ raised[b] = None
               /\ status[a] = "success" /\ status[b] = "success"
               /\ key \in Range(skipped[a]) \/ key \in Range(skipped[b])

\* C4: a commit that meets a uniqueness violation does not fail the task or
\* have it retried: the task returns success and every item of the execution
\* is in the store afterwards.
C4_ViolationIsSkip ==
    \A j \in Jobs :
        raised[j] = "IntegrityError"
            => /\ jpc[j] = "done"
               /\ status[j] = "success"
               /\ \A key \in Range(data[j].items) :
                     Stored(store, Table(kind[j]), key)

(***************************************************************************)
(* Properties of one ingestion task                                        *)
(***************************************************************************)
GoodItems(d) == {i \in 1..Len(d.items) : i \notin d.bad}

\* C11: when the batch of an execution that is over held a malformed item and
\* well-formed ones, the execution did not raise, the job ended without
\* failing and every well-formed item is in the store.
C11_PerItemIsolation ==
    \A j \in Jobs :
        ( /\ Ended(j)
          /\ kind[j] \in TaskKinds
          /\ data[j].shape = "list"
          /\ data[j].bad # {}
          /\ GoodItems(data[j]) # {} )
            => /\ raised[j] = None
               /\ jpc[j] = "done"
               /\ status[j] \notin {"error", "FAILURE"}
               /\ \A i \in GoodItems(data[j]) :
                     Stored(store, Table(kind[j]), data[j].items[i])

\* C12: a job whose service call answered with an empty list of items ends
\* with status success and leaves the store as it found it.
C12_EmptyBatchSucceeds ==
    \A j \in Jobs :
        ( /\ jpc[j] = "done"
          /\ kind[j] \in TaskKinds
          /\ data[j].shape = "list"
          /\ data[j].items = <<>> )
            => /\ status[j] = "success"
               /\ store = before[j]

\* C13: a job ends in exactly one terminal state and its outcome is final:
\* the outcome is set in the step that ends the job and only there, it is one
\* of success, error and FAILURE, a job that has ended stays ended with the
\* same outcome and writes no more, and every exception of an execution is
\* taken by the task's except clause, which enqueues the task again or ends
\* it as FAILURE.
C13_OneFinalOutcome ==
    [][ \A j \in Jobs :
          /\ (jpc[j] = "done")
                => /\ jpc'[j] = "done"
                   /\ status'[j] = status[j]
                   /\ raised'[j] = raised[j]
                   /\ store' = store
          /\ (jpc'[j] = "done")
                => /\ status'[j] \in {"success", "error", "FAILURE"}
                   /\ (status'[j] = "FAILURE") <=> (raised'[j] # None)
          /\ (status'[j] # status[j])
                => (jpc[j] # "done" /\ jpc'[j] = "done")
          /\ (raised'[j] # None /\ jpc[j] \notin {"queued", "done"})
                => \/ jpc'[j] = "queued" /\ retries'[j] = retries[j] + 1
                   \/ jpc'[j] = "done" /\ status'[j] = "FAILURE" ]_vars

C13_Witness ==
    /\ jpc[TaskJob] = "done"
    /\ status[TaskJob] = "FAILURE"
    /\ raised[TaskJob] = "IntegrityError"
    /\ retries[TaskJob] = task_max_retries

\* C14: a job never runs more than 1 + 3 executions, an execution's fetch
\* call never makes more than max_retries attempts, a job that ended by
\* raising ended as FAILURE in its fourth execution, and every job that is
\* enqueued reaches its end.
C14_JobTerminates ==
    /\ [](\A j \in Jobs :
            /\ retries[j] + 1 <= 1 + 3
            /\ netCalls <= max_retries
            /\ netTotal[j] <= (1 + task_max_retries) * max_retries
            /\ (jpc[j] = "done" /\ raised[j] # None)
                  => (status[j] = "FAILURE" /\ retries[j] + 1 = 1 + 3))
    /\ (jpc[TaskJob] = "queued") ~> (jpc[TaskJob] = "done")

C14_Witness ==
    /\ jpc[TaskJob] = "done"
    /\ status[TaskJob] = "FAILURE"
    /\ retries[TaskJob] = 3
    /\ netTotal[TaskJob] = 12

\* C15: a job is run at most as many times as the fetch client makes
\* attempts, and the network attempts made for one job stay within the fetch
\* client's budget: the two budgets do not multiply.
C15_BudgetNotMultiplied ==
    \A j \in Jobs :
        (kind[j] \in TaskKinds /\ UsesFetch(kind[j]))
            => /\ retries[j] + 1 <= max_retries
               /\ netTotal[j] <= max_retries

\* C16: when fetch hands failure to the task (a non-retryable status, an
\* exception, or max_retries attempts used up), the job ends in that step
\* with status error, without raising or being retried, and the store is the
\* one the execution found.
C16_FetchFailureEndsJob ==
    [][ \A j \in Jobs :
          ( /\ jpc[j] = "fetch"
            /\ fpc = "done"
            /\ Fetched(j) = NoData
            /\ jpc'[j] # "fetch" )
              => /\ jpc'[j] = "done"
                 /\ status'[j] = "error"
                 /\ raised'[j] = None
                 /\ retries'[j] = retries[j]
                 /\ store' = store
                 /\ store' = before[j] ]_vars

C16_Witness ==
    /\ jpc[TaskJob] = "done"
    /\ status[TaskJob] = "error"
    /\ UsesFetch(kind[TaskJob])
    /\ data[TaskJob] = NoData
    /\ store # {}
    /\ store = before[TaskJob]

\* C17: whatever the service, the request phase of an execution ends on a
\* 429 or a timeout only when max_retries attempts have been made.
C17_TransientRetriedLocally ==
    [][ \A j \in Jobs :
          ( /\ jpc[j] \in {"fetch", "request"}
            /\ jpc'[j] \notin {"fetch", "request"} )
              => LET seen == IF jpc[j] = "fetch" THEN responses
                             ELSE responses'
                 IN  (seen # <<>> /\ seen[Len(seen)] \in {"429", "timeout"})
                        => Len(seen) = max_retries ]_vars

(***************************************************************************)
(* Properties of the orchestrator                                          *)
(***************************************************************************)
JobsOf(entity) == {id \in DOMAIN bjobs : EntityOf(bjobs[id].task) = entity}

\* C18: once the orchestrator has returned, each of the 16 entity kinds has
\* exactly one job.
C18_OneJobPerKind ==
    (orch = "returned")
        => /\ Cardinality(EntityKinds) = 16
           /\ \A entity \in EntityKinds : Cardinality(JobsOf(entity)) = 1

C20_SummaryFollowsJobs ==
    [][ ( /\ orch = "returned"
          /\ \E id \in DOMAIN bjobs :
                bjobs[id].state = "queued" /\ bjobs'[id].state = "done" )
          => handle' # handle ]_vars

(***************************************************************************)
(* Properties of concurrent tasks and the store                            *)
(***************************************************************************)
\* job j fails in this step: its execution ends with an exception
Failing(j) ==
    /\ raised'[j] # None
    /\ \/ retries'[j] # retries[j]
       \/ jpc[j] # "done" /\ jpc'[j] = "done"

RowsBy(st, j) == {r \in st : r.by[1] = j}

\* C21: the step in which a job fails (a database outage included) changes
\* nothing of any other job, neither its position, outcome, exception,
\* retries and session nor the rows it stored, and nothing of the
\* orchestrator; and the orchestrator's launch, once requested, can always
\* be carried out, whatever has become of the jobs.
C21_FailureConfined ==
    /\ [][ \A j \in Jobs :
             Failing(j)
               => /\ \A i \in Jobs \ {j} :
                        /\ jpc'[i] = jpc[i]
                        /\ status'[i] = status[i]
                        /\ raised'[i] = raised[i]
                        /\ retries'[i] = retries[i]
                        /\ data'[i] = data[i]
                        /\ idx'[i] = idx[i]
                        /\ pending'[i] = pending[i]
                        /\ skipped'[i] = skipped[i]
                        /\ inserted'[i] = inserted[i]
                        /\ RowsBy(store', i) = RowsBy(store, i)
                  /\ <<orch, bjobs, handle>>' = <<orch, bjobs, handle>> ]_vars
    /\ [](orch = "queued" => ENABLED IngestAllNasaData)

\* one job has failed for good on an outage, the other one stored its rows and
\* succeeded, and the orchestrator has returned its handle
C21_Witness ==
    \E a, b \in Jobs :
        /\ a # b
        /\ jpc[a] = "done" /\ status[a] = "FAILURE"
        /\ raised[a] = "OperationalError"
        /\ jpc[b] = "done" /\ status[b] = "success"
        /\ RowsBy(store, b) # {}
        /\ b \notin prior[a]
        /\ orch = "returned"
        /\ handle.task_count = 13

\* the satellites ingest_tle_data tracks: ISS, Hubble, GOES-18
satellites == {"25544", "39084", "34602"}

\* C22: when a satellite-tracking job has been run again after another one
\* has ended, the later job ends with success and the store holds exactly
\* one record for each tracked satellite: the record of the earlier job was
\* replaced under the same satellite number.
C22_TleOverwrite ==
    \A a, b \in Jobs :
        ( /\ a < b
          /\ kind[a] = "ingest_tle_data" /\ jpc[a] = "done"
          /\ kind[b] = "ingest_tle_data" /\ jpc[b] = "done" )
            => /\ status[b] = "success"
               /\ raised[b] = None
               /\ \A sat \in satellites :
                     Cardinality(RowsOf("tle", sat)) = 1

\* C23: the step in which a task finds the key of an item stored adds
\* nothing for that item and counts it as skipped, no step of any task
\* removes or changes a stored row, and when a job has succeeded the rows of
\* the keys it skipped are the ones another job wrote, one for each key.
C23_SkipLeavesStored ==
    /\ [][ /\ store \subseteq store'
           /\ \A j \in Jobs :
                ( /\ jpc[j] = "items"
                  /\ idx'[j] # idx[j]
                  /\ ChecksExisting(kind[j])
                  /\ Stored(store, Table(kind[j]), data[j].items[idx[j]]) )
                    => /\ store' = store
                       /\ pending'[j] = pending[j]
                       /\ skipped'[j] =
                            Append(skipped[j], data[j].items[idx[j]])
                       /\ raised'[j] = None ]_vars
    /\ [](\A j \in Jobs :
            (jpc[j] = "done" /\ status[j] = "success")
              => /\ before[j] \subseteq store
                 /\ \A key \in Range(skipped[j]) :
                       /\ Cardinality(RowsOf(Table(kind[j]), key)) = 1
                       /\ RowsOf(Table(kind[j]), key) \cap RowsBy(store, j) = {})

\* a job that found one item of its answer stored by the other job and the
\* other item new has succeeded
C23_Witness ==
    \E a, b \in Jobs :
        /\ a # b
        /\ kind[b] \in SkipKinds
        /\ jpc[b] = "done" /\ status[b] = "success"
        /\ Len(data[b].items) = 2
        /\ Len(skipped[b]) = 1
        /\ inserted[b] = 1
        /\ RowsOf(Table(kind[b]), skipped[b][1]) \subseteq RowsBy(store, a)
        /\ RowsOf(Table(kind[b]), skipped[b][1]) \subseteq before[b]

\* Quantities of an answer that do not depend on the order of its items.
\* the keys of the answer that the store st does not hold (or that the task
\* does not look up)
NewKeys(k, d, st) ==
    {key \in Range(d.items) : ~(ChecksExisting(k) /\ Stored(st, Table(k), key))}

\* one of these keys belongs to a malformed item
BadNew(k, d, st) == \E i \in d.bad : d.items[i] \in NewKeys(k, d, st)

\* the number of session.add calls for a key
AddsOf(k, d, key) ==
    Count(d.items, key) *
      (IF k = "ingest_asteroids_by_date" /\ key \in d.multi THEN 2 ELSE 1)

\* the commit meets the unique constraint
Clash(k, d, st) ==
    \E key \in NewKeys(k, d, st) :
        AddsOf(k, d, key) > 1 \/ Stored(st, Table(k), key)

\* no other job has committed since the latest execution of j began
NoInterference(j) == store \ RowsBy(store, j) = before[j]

\* C24: when an execution is over and no other job has committed meanwhile,
\* what it stored and how it ended are determined by the store it found and
\* by which keys the answer holds how often, whatever the order of the items:
\* nothing and an exception when a new item is malformed or a new key is added
\* twice, otherwise success and exactly one row for each new key.
C24_OrderIndependent ==
    \A j \in Jobs :
        (Ended(j) /\ kind[j] \in OrderKinds /\ NoInterference(j))
          => LET k    == kind[j]
                 d    == data[j]
                 st   == before[j]
                 mine == {r.key : r \in RowsBy(store, j)}
             IN  IF ~Proceeds(k, d)
                 THEN /\ jpc[j] = "done" /\ status[j] = "error"
                      /\ mine = {}
                 ELSE IF BadNew(k, d, st)
                 THEN raised[j] = ItemError(k) /\ mine = {}
                 ELSE IF Clash(k, d, st)
                 THEN raised[j] = "IntegrityError" /\ mine = {}
                 ELSE /\ jpc[j] = "done" /\ status[j] = "success"
                      /\ raised[j] = None
                      /\ mine = NewKeys(k, d, st)
                      /\ Cardinality(RowsBy(store, j)) =
                            Cardinality(NewKeys(k, d, st))

\* two executions of the same task that found the same store and got the
\* same two items in opposite orders, one of them new and well-formed and the
\* other one malformed, are over and ended alike
C24_Witness ==
    \E a, b \in Jobs :
        /\ a # b
        /\ kind[a] \in OrderKinds /\ kind[b] = kind[a]
        /\ Ended(a) /\ Ended(b)
        /\ NoInterference(a) /\ NoInterference(b)
        /\ before[a] = before[b]
        /\ Len(data[a].items) = 2
        /\ data[a].items[1] # data[a].items[2]
        /\ data[b].items = <<data[a].items[2], data[a].items[1]>>
        /\ data[a].bad = {1} /\ data[b].bad = {2}
        /\ raised[a] = raised[b]
        /\ RowsBy(store, a) = {} /\ RowsBy(store, b) = {}

(***************************************************************************)
(* Properties of the periodic refresh                                      *)
(***************************************************************************)
\* C25: once a worker has run the task of a firing of the 6-hour entry or of
\* the 30-minute entry, ingestion has been requested: an ingestion task or
\* ingest_all_nasa_data has been enqueued.
C25_TimerRequestsIngestion ==
    \A e \in {"ingest-nasa-data", "ingest-space-weather"} :
        beatRan[beat_schedule[e].task] > 0
            => \/ \E j \in Jobs : jpc[j] # "unused"
               \/ orch # "idle"

\* C26: when an execution is over whose answer held a new key more than once
\* (an item listed twice, or an asteroid with two close approaches), all items
\* well-formed and no other job committing meanwhile, the job has ended with
\* success and the store holds exactly one row for each key of the answer.
C26_RepeatedKeyStoredOnce ==
    \A j \in Jobs :
        ( /\ Ended(j)
          /\ kind[j] \in OrderKinds
          /\ Proceeds(kind[j], data[j])
          /\ data[j].bad = {}
          /\ NoInterference(j)
          /\ \E key \in NewKeys(kind[j], data[j], before[j]) :
                AddsOf(kind[j], data[j], key) > 1 )
            => /\ jpc[j] = "done"
               /\ status[j] = "success"
               /\ raised[j] = None
               /\ \A key \in Range(data[j].items) :
                     Cardinality(RowsOf(Table(kind[j]), key)) = 1

\* C27: an execution writes the store in one step only, its commit, which
\* either stores a row for every record the execution added or, on a
\* constraint violation, none; an exception raised in the item loop writes
\* nothing and discards what was added; and when an execution has ended with
\* an exception raised before or by its commit, the store is the one it found.
C27_AtomicPersist ==
    /\ [][ \A j \in Jobs :
             /\ (jpc[j] # "commit") => RowsBy(store', j) = RowsBy(store, j)
             /\ (jpc[j] = "commit" /\ jpc'[j] # "commit")
                   => \/ /\ raised'[j] = "IntegrityError"
                         /\ store' = store
                      \/ /\ raised'[j] # "IntegrityError"
                         /\ store' = store \cup Rows(j, Table(kind[j]),
                                                     pending[j], retries[j])
                         /\ Cardinality(store' \ store) = Len(pending[j])
                         /\ inserted'[j] = Len(pending[j])
             /\ (jpc[j] = "items" /\ raised'[j] # None)
                   => /\ store' = store
                      /\ pending'[j] = <<>> ]_vars
    /\ [](\A j \in Jobs :
            (kind[j] \in TaskKinds /\ Ended(j)
               /\ raised[j] \notin {None, "NameError"})
              => store = before[j])

\* an execution that had added its first item when the second one raised is
\* over, and nothing of it is stored
C27_Witness ==
    /\ kind[TaskJob] \in {"ingest_asteroids_today", "ingest_eonet_events"}
    /\ Ended(TaskJob)
    /\ raised[TaskJob] = ItemError(kind[TaskJob])
    /\ Len(data[TaskJob].items) = 2
    /\ data[TaskJob].bad = {2}
    /\ data[TaskJob].items[1] # data[TaskJob].items[2]
    /\ store = {}
    /\ pending[TaskJob] = <<>>

\* the answers without a repeated key
RaceLists ==
    {d \in RaceAnswers("ingest_donki_flares") :
        d.shape = "list" /\ d.items # <<>> /\ NoRepeat(d.items)}

\* the execution of job j on the answer d has lost at the commit against a
\* row another job committed while it ran, and the task is enqueued again
LostRace(j, d) ==
    /\ jpc[j] = "queued"
    /\ raised[j] = "IntegrityError"
    /\ data[j] = d
    /\ \E key \in Range(d.items) :
          \E r \in RowsOf("donki", key) : r \notin before[j] /\ r.by[1] # j

\* C28: when one of the two solar-flare tasks has lost at the commit against
\* a row of the other, its task is enqueued again and the job ends; and when
\* the execution that ends it got the same answer, it ends with success and
\* the store holds exactly one row for every key of that answer.
C28_LoserRetriedToSuccess ==
    \A j \in Jobs : \A d \in RaceLists :
        LostRace(j, d)
          ~> ( /\ jpc[j] = "done"
               /\ (data[j] = d)
                     => /\ status[j] = "success"
                        /\ raised[j] = None
                        /\ \A key \in Range(d.items) :
                              Cardinality(RowsOf("donki", key)) = 1 )

\* both tasks got the same two events; one stored them, the other one lost at
\* the commit, was run again, skipped both and succeeded
C28_Witness ==
    \E a, b \in Jobs :
        /\ a # b
        /\ data[a] = data[b]
        /\ data[b] \in RaceLists /\ Len(data[b].items) = 2
        /\ jpc[a] = "done" /\ status[a] = "success"
        /\ retries[a] = 0 /\ inserted[a] = 2
        /\ jpc[b] = "done" /\ status[b] = "success"
        /\ retries[b] = 1 /\ inserted[b] = 0
        /\ skipped[b] = data[b].items
        /\ Cardinality(store) = 2

\* the first execution of ingest_apod is at its commit with a list of N
\* distinct dates, none of them stored
ApodFirstCommit(j) ==
    /\ kind[j] = "ingest_apod"
    /\ jpc[j] = "commit"
    /\ retries[j] = 0
    /\ data[j].shape = "list" /\ data[j].items # <<>>
    /\ NoRepeat(data[j].items)
    /\ \A key \in Range(data[j].items) : ~Stored(store, "apod", key)

\* C29: the first execution of ingest_apod on a list of N dates none of
\* which is stored ends at its commit with N stored records, status success
\* and count N, and no retry.
C29_ApodListFirstRun ==
    [][ \A j \in Jobs :
          (ApodFirstCommit(j) /\ jpc'[j] # "commit")
            => /\ jpc'[j] = "done"
               /\ status'[j] = "success"
               /\ raised'[j] = None
               /\ retries'[j] = 0
               /\ inserted'[j] = Len(data[j].items)
               /\ \A key \in Range(data[j].items) :
                     Stored(store', "apod", key) ]_vars

\* C30: an execution of ingest_tle_data issues one request per tracked
\* satellite and ends with status success, without a retry.
C30_TleFetchesEachSatellite ==
    [][ \A j \in Jobs :
          ( /\ kind[j] = "ingest_tle_data"
            /\ jpc[j] = "queued"
            /\ <<jpc'[j], retries'[j]>> # <<jpc[j], retries[j]>> )
            => /\ netTotal'[j] = netTotal[j] + Cardinality(satellites)
               /\ jpc'[j] = "done"
               /\ status'[j] = "success"
               /\ raised'[j] = None
               /\ retries'[j] = retries[j] ]_vars

\* the "tasks" list of the dict refresh_donki returns: the id of each
\* AsyncResult under its type label
refresh_tasks ==
    << [type |-> "flares", id |-> 1], [type |-> "cme", id |-> 2] >>

\* the ingestion task a type label stands for
TaskOfType(type) ==
    CASE type = "flares" -> "ingest_donki_flares"
      [] type = "cme" -> "ingest_donki_cme"

\* C31: once POST /donki/refresh has answered, each id of its answer is the
\* id of the task its type label names, so that the two enqueued tasks are
\* different: one solar-flare ingestion and one CME ingestion.
C31_RefreshTwoJobs ==
    \A m \in 1..Len(refresh_tasks) :
        jpc[refresh_tasks[m].id] # "unused"
          => /\ kind[refresh_tasks[m].id] = TaskOfType(refresh_tasks[m].type)
             /\ \A n \in 1..Len(refresh_tasks) :
                   n # m => kind[refresh_tasks[n].id] # kind[refresh_tasks[m].id]

\* C32: when a fetch call has ended, the delays it waited are at most its
\* retries, i.e. its network attempts minus one: no delay is waited after
\* the last permitted attempt, for 429 answers as for timeouts.
C32_DelaysWithinRetries ==
    fpc = "done" => (sleeps = 0 \/ sleeps <= netCalls - 1)

\* C33: the attempt that meets an exception other than a timeout is the last
\* one of its call: fetch returns None to its caller without another
\* attempt, without a delay and without a cache write.
C33_TransportErrorEndsCall ==
    [][ (fpc = "attempt" /\ responses' = Append(responses, "exception"))
          => /\ fpc' = "done"
             /\ result' = None
             /\ netCalls' = netCalls + 1
             /\ attempt' = attempt
             /\ sleeps' = sleeps
             /\ cache' = cache ]_vars

\* a call with a redis client met a timeout, then a connection failure
C33_Witness ==
    /\ fpc = "done"
    /\ responses = <<"timeout", "exception">>
    /\ result = None
    /\ fcall.redis
    /\ fcall.key \notin DOMAIN cache
    /\ sleeps = 1

\* the key/value pairs of a dict, whatever their insertion order
Pairs(params) == Range(params)

\* C34: two calls of the same class on the same URL whose params hold the
\* same pairs, in whatever insertion order, build the same cache key; two
\* calls that differ in the URL or in a parameter value build different keys.
C34_StableKey ==
    keyOut # <<>>
      => /\ ( /\ keyIn[1].cls = keyIn[2].cls
              /\ keyIn[1].url = keyIn[2].url
              /\ Pairs(keyIn[1].params) = Pairs(keyIn[2].params) )
                => keyOut[1] = keyOut[2]
         /\ ( \/ keyIn[1].url # keyIn[2].url
              \/ Pairs(keyIn[1].params) # Pairs(keyIn[2].params) )
                => keyOut[1] # keyOut[2]

\* two calls with the same two pairs inserted in opposite orders
C34_Witness ==
    /\ keyOut # <<>>
    /\ keyIn[1].cls = keyIn[2].cls
    /\ keyIn[1].url = keyIn[2].url
    /\ Len(keyIn[1].params) = 2
    /\ keyIn[1].params # keyIn[2].params
    /\ Pairs(keyIn[1].params) = Pairs(keyIn[2].params)
    /\ keyOut[1] = keyOut[2]

\* job j is at an asteroid of its answer that is not stored
AtNewAsteroid(j) ==
    /\ kind[j] = "ingest_asteroids_today"
    /\ jpc[j] = "items"
    /\ ~Stored(store, "asteroids_neows", data[j].items[idx[j]])

\* C35: the store holds at most one row for an asteroid id; the rows a job
\* of ingest_asteroids_today committed belong to asteroids that came with a
\* close approach; and the pass of the loop over a new asteroid adds one
\* record when the asteroid has one or more close approaches and is
\* well-formed, and none when it has no close approach, in which case the
\* loop goes on to the next asteroid or to the commit without an exception.
C35_OneRowPerAsteroid ==
    /\ [](\A key \in Keys : Cardinality(RowsOf("asteroids_neows", key)) <= 1)
    /\ [](\A j \in Jobs : \A r \in RowsBy(store, j) :
             kind[j] = "ingest_asteroids_today"
               => r.key \in Range(data[j].items) \ data[j].empty)
    /\ [][ \A j \in Jobs :
             (AtNewAsteroid(j) /\ <<jpc'[j], idx'[j]>> # <<jpc[j], idx[j]>>)
               => IF data[j].items[idx[j]] \in data[j].empty
                  THEN /\ pending'[j] = pending[j]
                       /\ idx'[j] = idx[j] + 1
                       /\ jpc'[j] = IF idx[j] = Len(data[j].items)
                                    THEN "commit" ELSE "items"
                       /\ raised'[j] = None
                       /\ retries'[j] = retries[j]
                       /\ store' = store
                  ELSE IF idx[j] \in data[j].bad
                  THEN raised'[j] # None
                  ELSE pending'[j] = Append(pending[j], data[j].items[idx[j]])
         ]_vars

\* a job has succeeded on an answer of two asteroids, the first with two
\* close approaches, the second with none: one row, for the first
C35_Witness ==
    \E j \in Jobs :
        /\ kind[j] = "ingest_asteroids_today"
        /\ jpc[j] = "done" /\ status[j] = "success"
        /\ retries[j] = 0
        /\ data[j].items = <<"k1", "k2">>
        /\ data[j].multi = {"k1"}
        /\ data[j].empty = {"k2"}
        /\ before[j] = {}
        /\ inserted[j] = 1
        /\ {r.key : r \in RowsBy(store, j)} = {"k1"}

\* the keys of an answer that are no sol
NoSol(text) ==
    \/ text \in {<<"disclaimer">>, <<"validity_checks">>}
    \/ text \notin SolTexts

\* C36: the pass of the loop of save_insight over a key that is
\* 'disclaimer', 'validity_checks' or no integer writes nothing, adds
\* nothing and raises nothing: the loop goes on to the next key or to the
\* commit; and a job that has ended with success on an answer has a stored
\* row for every sol of the answer, whatever other keys the answer held.
C36_NonSolKeysSkipped ==
    /\ [][ \A j \in Jobs :
             ( /\ kind[j] = "ingest_insight_weather"
               /\ jpc[j] = "items"
               /\ NoSol(data[j].items[idx[j]])
               /\ <<jpc'[j], idx'[j]>> # <<jpc[j], idx[j]>> )
               => /\ store' = store
                  /\ pending'[j] = pending[j]
                  /\ skipped'[j] = skipped[j]
                  /\ raised'[j] = None
                  /\ retries'[j] = retries[j]
                  /\ idx'[j] = idx[j] + 1
                  /\ jpc'[j] = IF idx[j] = Len(data[j].items)
                               THEN "commit" ELSE "items" ]_vars
    /\ [](\A j \in Jobs :
             ( /\ kind[j] = "ingest_insight_weather"
               /\ jpc[j] = "done" /\ status[j] = "success" )
               => /\ \A text \in Range(data[j].items) :
                        ~NoSol(text)
                          => Cardinality(RowsOf("insight_weather",
                                                int(text))) = 1
                  /\ \A r \in RowsBy(store, j) :
                        \E text \in Range(data[j].items) :
                           ~NoSol(text) /\ r.key = int(text))

\* a job has succeeded on an answer that holds 'sol_keys' before sol 7: the
\* row of sol 7 is stored, by this job
C36_Witness ==
    \E j \in Jobs :
        /\ kind[j] = "ingest_insight_weather"
        /\ jpc[j] = "done" /\ status[j] = "success"
        /\ data[j].shape = "object"
        /\ data[j].items = << <<"sol_keys">>, <<"7">> >>
        /\ before[j] = {}
        /\ inserted[j] = 1
        /\ {r.key : r \in RowsBy(store, j)} = {7}

====
